---- MODULE Spec2Model ----
(***************************************************************************)
(* MQTT-SN broker core (lib/broker-lib): the ingress loop's dispatch, the  *)
(* PUBLISH / SUBSCRIBE / DISCONNECT handlers, the topic-id subscription    *)
(* index and the egress queue.                                             *)
(*                                                                         *)
(* A datagram is decoded already: a record with the fields of its message. *)
(* A payload is modelled by its length in bytes (two payloads of different *)
(* length are different payloads).  A BisetMap is a set of <<left, right>> *)
(* pairs.  A HashMap is a function whose DOMAIN is its key set.  A topic   *)
(* name is the sequence of its characters.                                 *)
(***************************************************************************)
EXTENDS Integers, Sequences, FiniteSets, TLC

\* ------------------------------------------------------------------ bounds
MaxDatagrams == 3      \* datagrams received in a run of Spec
MaxFanout == 6         \* datagrams received in a run of SpecFanout
MaxSession == 6        \* datagrams received in a run of SpecSession
MaxRegistry == 4       \* datagrams received in a run of SpecRegistry
MaxWildcard == 5       \* datagrams received in a run of SpecWildcard
MaxAck == 5            \* datagrams of an acknowledgment scenario
MaxKeepAlive == 5      \* datagrams of a keep-alive scenario
MaxIdle == 2           \* ticks a timer is let run without a datagram of its peer
MaxRace == 5           \* calls made before and by the racing threads
MaxCalls == 4          \* calls made in a run of SpecCache
MaxFilterLen == 4      \* characters of a filter given to valid_filter and match_topic
MaxTopicLen == 3       \* characters of a topic given to match_topic
MaxBacklog == 0        \* frames waiting on the egress channel when a datagram is taken
SmallLen == 2          \* a payload that fits a one-byte-length frame
BigLen == 1393         \* a payload whose PUBLISH frame is 1400 bytes long
LongLen == 249         \* the shortest payload whose PUBLISH frame needs the long form
KeepAliveDuration == 60
SleepDuration == 30

Peers == {"p1", "p2"}
Payloads == {SmallLen, BigLen}
MsgIds == {1, 2}
PubTopicIds == {0, 1}
NormalNames == {<<"a">>}
OtherNames == {<<"b">>}
WildcardNames == {<<"a", "/", "#">>}
PreDefinedNames == {<<"1">>}
SubQoS == 0 .. 3

\* --------------------------------------------------------------- constants
MSG_LEN_PUBLISH_HEADER == 7
MaxPublishLen == 1400
QOS_LEVEL_0 == 0
QOS_LEVEL_1 == 1
QOS_LEVEL_2 == 2
QOS_LEVEL_3 == 3
RETURN_CODE_ACCEPTED == 0
MSG_LEN_DISCONNECT == 2
MSG_LEN_DISCONNECT_DURATION == 4
TopicIdModulus == 65536
MSG_TYPE_PUBLISH == 12
MSG_TYPE_PUBREC == 15
MSG_LEN_PUBREC == 4

VARIABLES
    conn,               \* Connection table: addr -> connection record
    client_ids,         \* ClientId: BisetMap client id <-> addr
    keep_alive,         \* KeepAliveTimeWheel: addr -> duration
    topic_ids,          \* GLOBAL_TOPIC_IDS: BisetMap topic id <-> addr
    topic_ids_qos,      \* GLOBAL_TOPIC_IDS_QOS: BisetMap <<id, addr>> <-> qos
    topic_name_to_ids,  \* GLOBAL_TOPIC_NAME_TO_IDS: BisetMap name <-> id
    interned_before,    \* GLOBAL_TOPIC_NAME_TO_IDS, the names of ended sessions:
                        \* how many there are; they hold the ids below it
    global_topic_id,    \* GLOBAL_TOPIC_ID: the next id to allocate
    wildcard_filters,   \* GLOBAL_WILDCARD_FILTERS: BisetMap filter <-> addr
    concrete_topics,    \* GLOBAL_CONCRETE_TOPICS: BisetMap topic <-> addr
    wildcard_topics,    \* GLOBAL_WILDCARD_TOPICS: BisetMap topic <-> addr
    retrans,            \* RetransTimeWheel: key -> [retries, frame]
    pub_msg_cache,      \* PubMsgCache: <<addr, msg id>> -> pending QoS 2
    asleep_msg_cache,   \* AsleepMsgCache: addr -> queue of Publish
    retain_store,       \* Retain: topic id -> retained message
    egress,             \* egress channel: queue of <<addr, frame>>
    ingress,            \* recv_thread: "running" or "panicked"
    budget,             \* datagrams (or calls) the run may still take
    call,               \* the library function called directly, with its arguments
    ret,                \* what that call returned: {} until it has, then {result}
    idle,               \* KeepAliveTimeWheel: addr -> ticks since the last
                        \* datagram of the peer was received
    threads             \* two threads inside delete_filter and match_topics:
                        \* where each is, its locals, the holder of the lock
                        \* of GLOBAL_WILDCARD_FILTERS

filterVars == <<wildcard_filters, concrete_topics, wildcard_topics>>
registryVars == <<topic_name_to_ids, interned_before, global_topic_id>>
subVars == <<topic_ids, topic_ids_qos>>
connVars == <<conn, client_ids, keep_alive>>
qosVars == <<retrans, pub_msg_cache, asleep_msg_cache, retain_store>>
callVars == <<call, ret>>
vars ==
    <<connVars, subVars, registryVars, filterVars, qosVars, egress, ingress,
      budget, callVars, idle, threads>>

\* ----------------------------------------------------------- map helpers
MapPut(m, k, v) == [x \in DOMAIN m \cup {k} |-> IF x = k THEN v ELSE m[x]]
MapRemove(m, k) == [x \in DOMAIN m \ {k} |-> m[x]]
EmptyMap == [x \in {} |-> 0]

BisetInsert(m, l, r) == m \cup {<<l, r>>}
BisetGet(m, l) == {x[2] : x \in {y \in m : y[1] = l}}
BisetRevDelete(m, r) == {x \in m : x[2] # r}
BisetRights(m) == {x[2] : x \in m}

RECURSIVE SeqsOf(_)
SeqsOf(S) ==
    IF S = {} THEN {<<>>}
    ELSE UNION {{<<x>> \o s : s \in SeqsOf(S \ {x})} : x \in S}

\* ------------------------------------------------------------------ frames
\* The frames the broker puts on the egress channel.  A PUBLISH frame keeps
\* the two 16-bit fields that follow the flags octet in their wire order.
ConnAckFrame == [msg_type |-> "CONNACK", return_code |-> RETURN_CODE_ACCEPTED]
WillTopicReqFrame == [msg_type |-> "WILLTOPICREQ"]
WillMsgReqFrame == [msg_type |-> "WILLMSGREQ"]
DisconnectFrame == [msg_type |-> "DISCONNECT"]
PubRecFrame(msg_id) == [msg_type |-> "PUBREC", msg_id |-> msg_id]
PubCompFrame(msg_id) == [msg_type |-> "PUBCOMP", msg_id |-> msg_id]
PubAckFrame(topic_id, msg_id, code) ==
    [msg_type |-> "PUBACK", topic_id |-> topic_id, msg_id |-> msg_id,
     return_code |-> code]
SubAckFrame(qos, topic_id, msg_id, code) ==
    [msg_type |-> "SUBACK", qos |-> qos, topic_id |-> topic_id,
     msg_id |-> msg_id, return_code |-> code]
PublishFrame(topic_id, msg_id, qos, retain, data) ==
    [msg_type |-> "PUBLISH", len |-> data + MSG_LEN_PUBLISH_HEADER,
     qos |-> qos, retain |-> retain,
     field_1 |-> msg_id, field_2 |-> topic_id, data |-> data]

\* The Publish struct Publish::recv reads from a datagram (len set to 0).
PublishOf(dg) ==
    [qos |-> dg.qos, retain |-> dg.retain, topic_id |-> dg.topic_id,
     msg_id |-> dg.msg_id, data |-> dg.data]

\* ---------------------------------------------------------- topic filters
\* The characters of the filters and topics the functions are called with;
\* U+00E9 (e with an acute accent) takes two bytes in UTF-8, the others one.
FilterChars == {"a", "/", "+", "#"}
TopicChars == {"a", "/", "#", "$", "U+00E9"}
Utf8Len(c) == IF c = "U+00E9" THEN 2 ELSE 1
StringsUpTo(chars, n) == UNION {[1 .. k -> chars] : k \in 0 .. n}

\* What a call returns, or that it panicked.
Ok(val) == [tag |-> "ok", val |-> val]
Panic == [tag |-> "panic", val |-> FALSE]

\* str::len and str::find: lengths and offsets are counted in bytes.
RECURSIVE StrLen(_)
StrLen(str) == IF str = <<>> THEN 0 ELSE Utf8Len(Head(str)) + StrLen(Tail(str))
Find(str, c) ==
    IF \E i \in DOMAIN str : str[i] = c
    THEN LET i == CHOOSE j \in DOMAIN str :
                      str[j] = c /\ \A k \in 1 .. j - 1 : str[k] # c
         IN  {StrLen(SubSeq(str, 1, i - 1))}
    ELSE {}
EndsWith(str, suffix) ==
    /\ Len(str) >= Len(suffix)
    /\ SubSeq(str, Len(str) - Len(suffix) + 1, Len(str)) = suffix

\* str::split('/'): the levels of a topic or filter; one empty level for "".
RECURSIVE Split(_)
Split(str) ==
    IF \E i \in DOMAIN str : str[i] = "/"
    THEN LET i == CHOOSE j \in DOMAIN str :
                      str[j] = "/" /\ \A k \in 1 .. j - 1 : str[k] # "/"
         IN  <<SubSeq(str, 1, i - 1)>> \o Split(SubSeq(str, i + 1, Len(str)))
    ELSE <<str>>

\* has_wildcards
HasWildcards(filter) == \E i \in DOMAIN filter : filter[i] \in {"+", "#"}

\* valid_filter
ValidFilter(filter) ==
    IF filter # <<>>
    THEN IF HasWildcards(filter)
         THEN /\ Find(filter, "#") = {StrLen(filter) - 1}
              /\ EndsWith(filter, <<"/", "#">>)
         ELSE TRUE
    ELSE FALSE

\* match_topic, the loop over the levels of the filter and what follows it.
RECURSIVE MatchLevels(_, _)
MatchLevels(topics, filters) ==
    IF filters = <<>> THEN topics = <<>>
    ELSE LET f == Head(filters)
         IN  IF f = <<"#">> THEN TRUE
             ELSE IF topics = <<>> THEN FALSE
             ELSE LET t == Head(topics)
                  IN  IF t = <<"#">> THEN FALSE
                      ELSE IF f = <<"+">>
                      THEN MatchLevels(Tail(topics), Tail(filters))
                      ELSE IF f # t THEN FALSE
                      ELSE MatchLevels(Tail(topics), Tail(filters))

\* A match_topic that does not look for a leading '$'.
MatchTopicNoDollar(topic, filter) == Ok(MatchLevels(Split(topic), Split(filter)))

\* match_topic. topic[..1] panics when byte 1 of the topic is not a
\* character boundary.
MatchTopic(topic, filter) ==
    IF topic # <<>> /\ Utf8Len(topic[1]) > 1 THEN Panic
    ELSE IF topic # <<>> /\ topic[1] = "$" THEN Ok(FALSE)
    ELSE Ok(MatchLevels(Split(topic), Split(filter)))

\* ----------------------------------------------------- subscription index
InsertSubscriberIds(ids, socket_add, id) == BisetInsert(ids, id, socket_add)
\* An insert_subscriber_with_topic_id that records QoS 0 whatever was asked.
InsertSubscriberQosZero(idq, socket_add, id, qos) == BisetInsert(idq, <<id, socket_add>>, QOS_LEVEL_0)

InsertSubscriberQos(idq, socket_add, id, qos) ==
    BisetInsert(idq, <<id, socket_add>>, qos)

\* The vectors get_subscribers_with_topic_id can return: BisetMap::get
\* yields its values in no particular order, in the outer and the inner loop.
QosVecs(id, sock) ==
    {[i \in 1 .. Len(q) |-> [socket_addr |-> sock, qos |-> q[i]]] :
        q \in SeqsOf(BisetGet(topic_ids_qos, <<id, sock>>))}

RECURSIVE VecsFor(_, _)
VecsFor(id, socks) ==
    IF socks = <<>> THEN {<<>>}
    ELSE {h \o t : h \in QosVecs(id, Head(socks)), t \in VecsFor(id, Tail(socks))}

GetSubscribersWithTopicId(id) ==
    UNION {VecsFor(id, ss) : ss \in SeqsOf(BisetGet(topic_ids, id))}

\* try_insert_topic_name: <<registry, next id, returned id>>.
TryInsertTopicName(reg, next, topic_name) ==
    LET have == BisetGet(reg, topic_name)
    IN  IF have = {}
        THEN <<BisetInsert(reg, topic_name, next),
               (next + 1) % TopicIdModulus, next>>
        ELSE <<reg, next, CHOOSE id \in have : TRUE>>

\* ------------------------------------------------------------- QoS engine
RetransKey(addr, msg_type, topic_id, msg_id) == <<addr, msg_type, topic_id, msg_id>>
ScheduleTimer(rt, addr, msg_type, topic_id, msg_id, retries, frame) ==
    MapPut(rt, RetransKey(addr, msg_type, topic_id, msg_id),
           [retries |-> retries, frame |-> frame])
CancelTimer(rt, addr, msg_type, topic_id, msg_id) ==
    MapRemove(rt, RetransKey(addr, msg_type, topic_id, msg_id))

AsleepInsert(cache, addr, publish) ==
    MapPut(cache, addr,
           IF addr \in DOMAIN cache THEN Append(cache[addr], publish)
           ELSE <<publish>>)

\* The state a fan-out threads through: the egress queue, the
\* retransmission wheel and the asleep cache.
Out(eg, rt, asl) == [egress |-> eg, retrans |-> rt, asleep |-> asl]

\* A Publish::send that schedules a retransmission at every QoS level.
PublishSendAllQos(topic_id, msg_id, qos, retain, data, remote_addr, st) ==
    LET len == data + MSG_LEN_PUBLISH_HEADER
        frame == PublishFrame(topic_id, msg_id, qos, retain, data)
        rt == IF qos = QOS_LEVEL_2
              THEN ScheduleTimer(st.retrans, remote_addr, "PUBREC", 0, msg_id,
                                 1, frame)
              ELSE ScheduleTimer(st.retrans, remote_addr, "PUBACK", 0, msg_id,
                                 10, frame)
    IN  IF len >= MaxPublishLen THEN st
        ELSE Out(Append(st.egress, <<remote_addr, frame>>), rt, st.asleep)

\* Publish::send: refuses a frame of 1400 bytes or more; schedules the
\* retransmission for QoS 1 and 2; then puts the frame on the egress channel.
PublishSend(topic_id, msg_id, qos, retain, data, remote_addr, st) ==
    LET len == data + MSG_LEN_PUBLISH_HEADER
        frame == PublishFrame(topic_id, msg_id, qos, retain, data)
        rt == CASE qos = QOS_LEVEL_1 ->
                     ScheduleTimer(st.retrans, remote_addr, "PUBACK", 0,
                                   msg_id, 10, frame)
                [] qos = QOS_LEVEL_2 ->
                     ScheduleTimer(st.retrans, remote_addr, "PUBREC", 0,
                                   msg_id, 1, frame)
                [] OTHER -> st.retrans
    IN  IF len >= MaxPublishLen THEN st
        ELSE Out(Append(st.egress, <<remote_addr, frame>>), rt, st.asleep)

\* Connection::get_state
GetState(addr) == IF addr \in DOMAIN conn THEN conn[addr].state ELSE "NONE"

\* Publish::send_msg_to_subscribers
RECURSIVE SendMsgToSubscribers(_, _, _)
SendMsgToSubscribers(subscriber_vec, publish, st) ==
    IF subscriber_vec = <<>> THEN st
    ELSE
        LET subscriber == Head(subscriber_vec)
            state == GetState(subscriber.socket_addr)
            st1 == CASE state = "ACTIVE" ->
                          PublishSend(publish.topic_id, publish.msg_id,
                                      subscriber.qos, FALSE, publish.data,
                                      subscriber.socket_addr, st)
                     [] state = "ASLEEP" ->
                          Out(st.egress, st.retrans,
                              AsleepInsert(st.asleep, subscriber.socket_addr,
                                           publish))
                     [] OTHER -> st
        IN  SendMsgToSubscribers(Tail(subscriber_vec), publish, st1)

\* -------------------------------------------------------------- datagrams
ConnectDgs ==
    {[msg_type |-> "CONNECT", will |-> w, duration |-> KeepAliveDuration] :
        w \in BOOLEAN}
WillTopicDgs == {[msg_type |-> "WILLTOPIC", topic_name |-> n] : n \in NormalNames}
WillMsgDgs == {[msg_type |-> "WILLMSG", data |-> d] : d \in Payloads}
SubscribeDgs ==
    {[msg_type |-> "SUBSCRIBE", qos |-> q, topic_id_type |-> "NORMAL",
      msg_id |-> m, topic_name |-> n] :
        q \in SubQoS, m \in MsgIds,
        n \in NormalNames \cup OtherNames \cup WildcardNames}
    \cup
    {[msg_type |-> "SUBSCRIBE", qos |-> q, topic_id_type |-> t,
      msg_id |-> 1, topic_name |-> n] :
        q \in SubQoS, t \in {"PRE_DEFINED"}, n \in PreDefinedNames}
    \cup
    {[msg_type |-> "SUBSCRIBE", qos |-> 0, topic_id_type |-> "PRE_DEFINED",
      msg_id |-> 1, topic_name |-> <<"a">>],
     [msg_type |-> "SUBSCRIBE", qos |-> 0, topic_id_type |-> "SHORT",
      msg_id |-> 1, topic_name |-> <<"a", "b">>]}

\* The SUBSCRIBE datagrams of the connection and fan-out scenarios: one
\* topic name, one msg id.
PlainSubscribeDgs ==
    {dg \in SubscribeDgs :
        /\ dg.msg_id = 1
        /\ dg.topic_name \notin OtherNames \cup WildcardNames}
PublishDgs ==
    {[msg_type |-> "PUBLISH", qos |-> q, retain |-> r, topic_id |-> t,
      msg_id |-> m, data |-> d] :
        q \in 0 .. 3, r \in BOOLEAN, t \in PubTopicIds, m \in MsgIds,
        d \in Payloads}
PubRelDgs == {[msg_type |-> "PUBREL", msg_id |-> m] : m \in MsgIds}
PubRecDgs == {[msg_type |-> "PUBREC", msg_id |-> m] : m \in MsgIds}
DisconnectDgs ==
    {[msg_type |-> "DISCONNECT", size |-> MSG_LEN_DISCONNECT, duration |-> 0],
     [msg_type |-> "DISCONNECT", size |-> MSG_LEN_DISCONNECT_DURATION,
      duration |-> SleepDuration],
     [msg_type |-> "DISCONNECT", size |-> 3, duration |-> 0]}

\* Datagrams the decoders refuse. MsgHeader::try_read fails on one whose
\* length octet disagrees with its size or whose type is unknown; the
\* try_read of a message struct fails on one whose header is well formed and
\* whose body is cut short.
BadHeaderDgs == {[msg_type |-> "NONE", truncated |-> FALSE]}
TruncatedDgs ==
    {[msg_type |-> t, truncated |-> TRUE] : t \in {"PUBLISH", "SUBSCRIBE"}}

\* str::parse::<u16> on the topic name of a pre-defined SUBSCRIBE:
\* {} when the name is not a number.
ParseU16(topic_name) ==
    CASE topic_name = <<"0">> -> {0}
      [] topic_name = <<"1">> -> {1}
      [] OTHER -> {}

\* --------------------------------------------------------------- handlers
\* KeepAliveTimeWheel::reschedule, the first call the loop makes on a
\* datagram: the deadline of the peer counts from now.
Reschedule(addr) == idle' = [idle EXCEPT ![addr] = 0]

\* What every turn of the loop does that keeps the loop running.
Received(addr) ==
    /\ budget' = budget - 1 /\ ingress' = ingress
    /\ Reschedule(addr)
    /\ UNCHANGED <<callVars, threads>>

\* Connect::recv
ConnectRecv(addr, dg) ==
    /\ client_ids' = BisetInsert(client_ids, <<"client", addr>>, addr)
    /\ IF dg.will
       THEN /\ conn' = MapPut(conn, addr,
                    [state |-> "AWAITING_WILL_TOPIC", duration |-> dg.duration,
                     will_topic_id |-> {}, will_message |-> 0])
            /\ egress' = Append(egress, <<addr, WillTopicReqFrame>>)
            /\ UNCHANGED keep_alive
       ELSE /\ conn' = MapPut(conn, addr,
                    [state |-> "ACTIVE", duration |-> dg.duration,
                     will_topic_id |-> {}, will_message |-> 0])
            /\ egress' = Append(egress, <<addr, ConnAckFrame>>)
            /\ keep_alive' = MapPut(keep_alive, addr, dg.duration)
    /\ UNCHANGED <<subVars, registryVars, filterVars, qosVars>>

\* A handler that fails with a protocol-state error: logged, nothing changes.
ProtocolError(addr) ==
    UNCHANGED <<connVars, subVars, registryVars, filterVars, qosVars, egress>>

\* WillTopic::recv
WillTopicRecv(addr, dg) ==
    IF GetState(addr) = "AWAITING_WILL_TOPIC"
    THEN LET r == TryInsertTopicName(topic_name_to_ids, global_topic_id,
                                     dg.topic_name)
         IN  /\ topic_name_to_ids' = r[1]
             /\ global_topic_id' = r[2]
             /\ UNCHANGED interned_before
             /\ conn' = [conn EXCEPT ![addr].state = "AWAITING_WILL_MSG",
                                     ![addr].will_topic_id = {r[3]}]
             /\ egress' = Append(egress, <<addr, WillMsgReqFrame>>)
             /\ UNCHANGED <<client_ids, keep_alive, subVars, filterVars, qosVars>>
    ELSE ProtocolError(addr)

\* WillMsg::recv
WillMsgRecv(addr, dg) ==
    IF GetState(addr) = "AWAITING_WILL_MSG"
    THEN /\ conn' = [conn EXCEPT ![addr].state = "ACTIVE",
                                 ![addr].will_message = dg.data]
         /\ keep_alive' = MapPut(keep_alive, addr, conn[addr].duration)
         /\ egress' = Append(egress, <<addr, ConnAckFrame>>)
         /\ UNCHANGED <<client_ids, subVars, registryVars, filterVars, qosVars>>
    ELSE ProtocolError(addr)

\* Subscribe::recv
SubscribeRecv(addr, dg) ==
    CASE dg.topic_id_type = "NORMAL" ->
            LET r == TryInsertTopicName(topic_name_to_ids, global_topic_id,
                                        dg.topic_name)
            IN  /\ topic_name_to_ids' = r[1]
                /\ global_topic_id' = r[2]
                /\ UNCHANGED interned_before
                /\ topic_ids' = InsertSubscriberIds(topic_ids, addr, r[3])
                /\ topic_ids_qos' =
                       InsertSubscriberQos(topic_ids_qos, addr, r[3], dg.qos)
                /\ egress' = Append(egress,
                       <<addr, SubAckFrame(dg.qos, r[3], dg.msg_id,
                                           RETURN_CODE_ACCEPTED)>>)
                /\ UNCHANGED <<connVars, filterVars, qosVars>>
      [] dg.topic_id_type = "PRE_DEFINED" /\ ParseU16(dg.topic_name) # {} ->
            LET topic_id == CHOOSE id \in ParseU16(dg.topic_name) : TRUE
            IN  /\ topic_ids' = InsertSubscriberIds(topic_ids, addr, topic_id)
                /\ topic_ids_qos' =
                       InsertSubscriberQos(topic_ids_qos, addr, topic_id, dg.qos)
                /\ egress' = Append(egress,
                       <<addr, SubAckFrame(dg.qos, topic_id, dg.msg_id,
                                           RETURN_CODE_ACCEPTED)>>)
                /\ UNCHANGED <<connVars, registryVars, filterVars, qosVars>>
      [] OTHER ->
            UNCHANGED <<connVars, subVars, registryVars, filterVars, qosVars,
                        egress>>

\* Publish::recv, QoS 2 arm: reply PUBREC, schedule its retransmission
\* awaiting PUBREL, cache the publish with the subscribers, return.
PublishRecvQos2(addr, dg, subscriber_vec) ==
    LET bytes == PubRecFrame(dg.msg_id)
    IN  /\ egress' = Append(egress, <<addr, bytes>>)
        /\ retrans' = ScheduleTimer(retrans, addr, "PUBREL", 0, dg.msg_id, 1,
                                    bytes)
        /\ pub_msg_cache' =
               MapPut(pub_msg_cache, <<addr, dg.msg_id>>,
                      [publish |-> PublishOf(dg),
                       subscriber_vec |-> subscriber_vec])
        /\ UNCHANGED <<asleep_msg_cache, retain_store>>

\* Publish::recv, QoS 0 and 1: PUBACK for QoS 1, the retained store, then
\* the fan-out.
PublishRecvFanout(addr, dg, subscriber_vec) ==
    LET eg1 == IF dg.qos = QOS_LEVEL_1
               THEN Append(egress,
                        <<addr, PubAckFrame(dg.topic_id, dg.msg_id,
                                            RETURN_CODE_ACCEPTED)>>)
               ELSE egress
        st == SendMsgToSubscribers(subscriber_vec, PublishOf(dg),
                  Out(eg1, retrans, asleep_msg_cache))
    IN  /\ retain_store' =
               IF dg.retain
               THEN MapPut(retain_store, dg.topic_id,
                        [qos |-> dg.qos, msg_id |-> dg.msg_id,
                         data |-> dg.data])
               ELSE retain_store
        /\ egress' = st.egress
        /\ retrans' = st.retrans
        /\ asleep_msg_cache' = st.asleep
        /\ UNCHANGED pub_msg_cache

\* A Publish::recv without the QoS 2 arm: a QoS 2 PUBLISH falls through to
\* the fan-out.
PublishRecvNoQos2Arm(addr, dg, subscriber_vec) ==
    CASE dg.qos = QOS_LEVEL_3 -> UNCHANGED <<qosVars, egress>>
      [] OTHER -> PublishRecvFanout(addr, dg, subscriber_vec)

\* Publish::recv, with subscriber_vec the vector get_subscribers_with_topic_id
\* returned.
PublishRecv(addr, dg, subscriber_vec) ==
    CASE dg.qos = QOS_LEVEL_2 -> PublishRecvQos2(addr, dg, subscriber_vec)
      [] dg.qos = QOS_LEVEL_3 -> UNCHANGED <<qosVars, egress>>
      [] OTHER -> PublishRecvFanout(addr, dg, subscriber_vec)

\* PubRel::recv
PubRelRecv(addr, dg) ==
    LET key == <<addr, dg.msg_id>>
        rt1 == CancelTimer(retrans, addr, "PUBREL", 0, dg.msg_id)
    IN  IF key \in DOMAIN pub_msg_cache
        THEN LET st == SendMsgToSubscribers(pub_msg_cache[key].subscriber_vec,
                           pub_msg_cache[key].publish,
                           Out(egress, rt1, asleep_msg_cache))
             IN  /\ egress' = Append(st.egress, <<addr, PubCompFrame(dg.msg_id)>>)
                 /\ retrans' = st.retrans
                 /\ asleep_msg_cache' = st.asleep
                 /\ pub_msg_cache' = MapRemove(pub_msg_cache, key)
                 /\ UNCHANGED retain_store
        ELSE /\ retrans' = rt1
             /\ UNCHANGED <<pub_msg_cache, asleep_msg_cache, retain_store, egress>>

\* The Will loop of Disconnect::recv: one Publish::send per subscriber.
RECURSIVE PublishWill(_, _, _, _)
PublishWill(subscriber_vec, topic_id, will_message, st) ==
    IF subscriber_vec = <<>> THEN st
    ELSE PublishWill(Tail(subscriber_vec), topic_id, will_message,
             PublishSend(topic_id, 0, Head(subscriber_vec).qos, FALSE,
                         will_message, Head(subscriber_vec).socket_addr, st))

\* Disconnect::recv without duration: what follows Connection::remove and
\* ClientId::rev_delete when the timer is cancelled: the DISCONNECT reply,
\* then the Will of an ACTIVE peer that stored one.
DisconnectOut(addr, subscriber_vec) ==
    LET publish_will == GetState(addr) = "ACTIVE"
        c == conn[addr]
        st0 == Out(Append(egress, <<addr, DisconnectFrame>>), retrans,
                   asleep_msg_cache)
    IN  IF publish_will /\ c.will_topic_id # {}
        THEN PublishWill(subscriber_vec, CHOOSE t \in c.will_topic_id : TRUE,
                         c.will_message, st0)
        ELSE st0

\* A Disconnect::recv that leaves the timer of the peer it destroys.
DisconnectRecvDestroyKeepsTimer(addr, subscriber_vec) ==
    LET st == DisconnectOut(addr, subscriber_vec)
    IN  /\ conn' = MapRemove(conn, addr)
        /\ client_ids' = BisetRevDelete(client_ids, addr)
        /\ IF addr \in DOMAIN keep_alive
           THEN /\ egress' = st.egress
                /\ retrans' = st.retrans
           ELSE UNCHANGED <<egress, retrans>>
        /\ UNCHANGED <<keep_alive, pub_msg_cache, asleep_msg_cache,
                       retain_store>>

\* Disconnect::recv, a datagram of MSG_LEN_DISCONNECT bytes.
\* KeepAliveTimeWheel::cancel fails for a peer without a timer, after the
\* connection is removed and before the reply.
DisconnectRecvDestroy(addr, subscriber_vec) ==
    LET st == DisconnectOut(addr, subscriber_vec)
    IN  /\ conn' = MapRemove(conn, addr)
        /\ client_ids' = BisetRevDelete(client_ids, addr)
        /\ IF addr \in DOMAIN keep_alive
           THEN /\ keep_alive' = MapRemove(keep_alive, addr)
                /\ egress' = st.egress
                /\ retrans' = st.retrans
           ELSE UNCHANGED <<keep_alive, egress, retrans>>
        /\ UNCHANGED <<pub_msg_cache, asleep_msg_cache, retain_store>>

\* A Disconnect::recv that puts a peer to sleep without scheduling its timer.
DisconnectRecvSleepNoTimer(addr, dg) ==
    /\ conn' = [conn EXCEPT ![addr].state = "ASLEEP"]
    /\ egress' = Append(egress, <<addr, DisconnectFrame>>)
    /\ UNCHANGED <<keep_alive, client_ids, qosVars>>

\* A Disconnect::recv that puts a peer to sleep and destroys its record.
DisconnectRecvSleepDestroys(addr, dg) ==
    /\ conn' = MapRemove(conn, addr)
    /\ keep_alive' = MapPut(keep_alive, addr, dg.duration)
    /\ egress' = Append(egress, <<addr, DisconnectFrame>>)
    /\ UNCHANGED <<client_ids, qosVars>>

\* Disconnect::recv, a datagram of MSG_LEN_DISCONNECT_DURATION bytes.
DisconnectRecvSleep(addr, dg) ==
    /\ conn' = [conn EXCEPT ![addr].state = "ASLEEP"]
    /\ keep_alive' = MapPut(keep_alive, addr, dg.duration)
    /\ egress' = Append(egress, <<addr, DisconnectFrame>>)
    /\ UNCHANGED <<client_ids, qosVars>>

\* Disconnect::recv, with subscriber_vec the vector
\* get_subscribers_with_topic_id returned for the Will topic.
DisconnectRecv(addr, dg, subscriber_vec) ==
    CASE dg.size = MSG_LEN_DISCONNECT ->
            DisconnectRecvDestroy(addr, subscriber_vec)
      [] dg.size = MSG_LEN_DISCONNECT_DURATION -> DisconnectRecvSleep(addr, dg)
      [] OTHER -> UNCHANGED <<connVars, qosVars, egress>>

\* -------------------------------------------------- the ingress loop
\* MqttSnClient::broker_rx_loop: one action per arm of the dispatch.
CanReceive ==
    ingress = "running" /\ budget > 0 /\ Len(egress) <= MaxBacklog
Known(addr) == addr \in DOMAIN conn

RxConnect(addr, dg) ==
    /\ CanReceive /\ ~Known(addr) /\ dg \in ConnectDgs
    /\ ConnectRecv(addr, dg) /\ Received(addr)

RxPublish(addr, dg) ==
    /\ CanReceive /\ dg \in PublishDgs
    /\ \E subscriber_vec \in GetSubscribersWithTopicId(dg.topic_id) :
           PublishRecv(addr, dg, subscriber_vec)
    /\ UNCHANGED <<connVars, subVars, registryVars, filterVars>>
    /\ Received(addr)

RxPubRel(addr, dg) ==
    /\ CanReceive /\ Known(addr) /\ dg \in PubRelDgs
    /\ PubRelRecv(addr, dg)
    /\ UNCHANGED <<connVars, subVars, registryVars, filterVars>>
    /\ Received(addr)

RxSubscribe(addr, dg) ==
    /\ CanReceive /\ Known(addr) /\ dg \in SubscribeDgs
    /\ SubscribeRecv(addr, dg) /\ Received(addr)

\* Subscribe::recv of a new topic name when GLOBAL_TOPIC_ID is 0xFFFF, in a
\* build with overflow checks: try_insert_topic_name has inserted the name
\* when topic_id + 1 panics; the counter is not written, nothing is
\* subscribed or sent, and the thread that runs the loop ends. (Without
\* overflow checks the sum wraps to 0: RxSubscribe.)
RxSubscribePanics(addr, dg) ==
    /\ CanReceive /\ Known(addr) /\ dg \in SubscribeDgs
    /\ dg.topic_id_type = "NORMAL"
    /\ BisetGet(topic_name_to_ids, dg.topic_name) = {}
    /\ global_topic_id = TopicIdModulus - 1
    /\ topic_name_to_ids' =
           BisetInsert(topic_name_to_ids, dg.topic_name, global_topic_id)
    /\ ingress' = "panicked"
    /\ budget' = budget - 1
    /\ Reschedule(addr)
    /\ UNCHANGED <<global_topic_id, interned_before, connVars, subVars,
                   filterVars, qosVars, egress, callVars, threads>>

RxDisconnect(addr, dg) ==
    /\ CanReceive /\ Known(addr) /\ dg \in DisconnectDgs
    /\ \E subscriber_vec \in
           UNION {GetSubscribersWithTopicId(t) : t \in conn[addr].will_topic_id}
           \cup (IF conn[addr].will_topic_id = {} THEN {<<>>} ELSE {}) :
           DisconnectRecv(addr, dg, subscriber_vec)
    /\ UNCHANGED <<subVars, registryVars, filterVars>>
    /\ Received(addr)

RxWillTopic(addr, dg) ==
    /\ CanReceive /\ Known(addr) /\ dg \in WillTopicDgs
    /\ WillTopicRecv(addr, dg) /\ Received(addr)

RxWillMsg(addr, dg) ==
    /\ CanReceive /\ Known(addr) /\ dg \in WillMsgDgs
    /\ WillMsgRecv(addr, dg) /\ Received(addr)

\* An unknown peer's datagram that is answered with a DISCONNECT.
RxDroppedWithReply(addr, dg) ==
    /\ CanReceive
    /\ \/ Known(addr) /\ dg \in ConnectDgs \cup PubRecDgs
       \/ ~Known(addr) /\ dg.msg_type \notin {"CONNECT", "PUBLISH", "NONE"}
    /\ egress' = Append(egress, <<addr, DisconnectFrame>>)
    /\ UNCHANGED <<connVars, subVars, registryVars, filterVars, qosVars>>
    /\ Received(addr)

\* A datagram no arm handles: a CONNECT or a PUBREC of a known peer, or
\* anything but CONNECT and PUBLISH of an unknown one. No handler reads its
\* body.
RxDropped(addr, dg) ==
    /\ CanReceive
    /\ \/ Known(addr) /\ dg \in ConnectDgs \cup PubRecDgs
       \/ ~Known(addr) /\ dg.msg_type \notin {"CONNECT", "PUBLISH", "NONE"}
    /\ UNCHANGED <<connVars, subVars, registryVars, filterVars, qosVars, egress>>
    /\ Received(addr)

\* A loop that decodes the header first and reschedules the timer of the
\* peer afterwards: a datagram whose header is refused reschedules nothing.
RxBadHeaderStale(addr, dg) ==
    /\ CanReceive /\ dg \in BadHeaderDgs
    /\ UNCHANGED <<connVars, subVars, registryVars, filterVars, qosVars, egress>>
    /\ budget' = budget - 1
    /\ UNCHANGED <<ingress, idle, callVars, threads>>

\* A datagram whose header MsgHeader::try_read refuses: logged, and the loop
\* continues with the next datagram.
RxBadHeader(addr, dg) ==
    /\ CanReceive /\ dg \in BadHeaderDgs
    /\ UNCHANGED <<connVars, subVars, registryVars, filterVars, qosVars, egress>>
    /\ Received(addr)

\* A PUBLISH of any peer, or a SUBSCRIBE of a known one, whose body the
\* handler's try_read refuses: the handler unwraps the error, and the panic
\* ends the thread that runs the loop.
RxTruncated(addr, dg) ==
    /\ CanReceive /\ dg \in TruncatedDgs
    /\ dg.msg_type = "PUBLISH" \/ Known(addr)
    /\ ingress' = "panicked"
    /\ budget' = budget - 1
    /\ Reschedule(addr)
    /\ UNCHANGED <<connVars, subVars, registryVars, filterVars, qosVars, egress,
                   callVars, threads>>

\* The transmit thread: takes the head of the egress channel to the socket.
EgressLoop ==
    /\ egress # <<>>
    /\ egress' = Tail(egress)
    /\ UNCHANGED <<connVars, subVars, registryVars, filterVars, qosVars,
                   ingress, idle, threads, budget, callVars>>

Datagrams ==
    ConnectDgs \cup WillTopicDgs \cup WillMsgDgs \cup SubscribeDgs
    \cup PublishDgs \cup PubRelDgs \cup DisconnectDgs

\* No thread is inside delete_filter or match_topics.
NoThreads ==
    [d |-> "init", peer |-> "none", m |-> "idle", topic |-> <<>>,
     sock_vec |-> {}, todo |-> {}, wildcards |-> {}, wf_lock |-> "none"]

\* No connection, no subscription, no message in flight.
NoSessions ==
    /\ conn = EmptyMap
    /\ client_ids = {}
    /\ keep_alive = EmptyMap
    /\ topic_ids = {}
    /\ topic_ids_qos = {}
    /\ wildcard_filters = {}
    /\ concrete_topics = {}
    /\ wildcard_topics = {}
    /\ retrans = EmptyMap
    /\ pub_msg_cache = EmptyMap
    /\ asleep_msg_cache = EmptyMap
    /\ retain_store = EmptyMap
    /\ egress = <<>>
    /\ ingress = "running"
    /\ idle = [a \in Peers |-> 0]
    /\ threads = NoThreads

\* The broker's statics as lazy_static creates them.
Fresh ==
    /\ NoSessions
    /\ topic_name_to_ids = {}
    /\ interned_before = 0
    /\ global_topic_id = 0

\* No library function is called from outside the ingress loop.
NoCall == [fn |-> "none"]
Empty == Fresh /\ call = NoCall /\ ret = {}

Init == Empty /\ budget = MaxDatagrams

Next ==
    \/ \E addr \in Peers, dg \in ConnectDgs : RxConnect(addr, dg)
    \/ \E addr \in Peers, dg \in WillTopicDgs : RxWillTopic(addr, dg)
    \/ \E addr \in Peers, dg \in WillMsgDgs : RxWillMsg(addr, dg)
    \/ \E addr \in Peers, dg \in PlainSubscribeDgs : RxSubscribe(addr, dg)
    \/ \E addr \in Peers, dg \in PublishDgs : RxPublish(addr, dg)
    \/ \E addr \in Peers, dg \in PubRelDgs : RxPubRel(addr, dg)
    \/ \E addr \in Peers, dg \in DisconnectDgs : RxDisconnect(addr, dg)
    \/ \E addr \in Peers, dg \in Datagrams \cup TruncatedDgs :
           RxDropped(addr, dg)
    \/ \E addr \in Peers, dg \in BadHeaderDgs : RxBadHeader(addr, dg)
    \/ \E addr \in Peers, dg \in TruncatedDgs : RxTruncated(addr, dg)
    \/ EgressLoop

Spec == Init /\ [][Next]_vars

\* ------------------------------------------------ the fan-out scenarios
\* One peer subscribes, sleeps and disconnects; the other publishes.
Subscriber == "p1"
Publisher == "p2"
PlainConnect == {dg \in ConnectDgs : ~dg.will}
FanoutSubscribeDgs ==
    {dg \in PlainSubscribeDgs :
        dg.topic_id_type = "NORMAL" \/ dg.qos = QOS_LEVEL_1}
FanoutPublishDgs == {dg \in PublishDgs : ~dg.retain}

InitFanout == Empty /\ budget = MaxFanout

NextFanout ==
    \/ \E addr \in Peers, dg \in PlainConnect : RxConnect(addr, dg)
    \/ \E dg \in FanoutSubscribeDgs : RxSubscribe(Subscriber, dg)
    \/ \E dg \in DisconnectDgs : RxDisconnect(Subscriber, dg)
    \/ \E dg \in FanoutPublishDgs : RxPublish(Publisher, dg)
    \/ \E dg \in PubRelDgs : RxPubRel(Publisher, dg)
    \/ EgressLoop

SpecFanout == InitFanout /\ [][NextFanout]_vars

\* ------------------------------------------------ the session scenarios
\* Both peers connect (with or without a Will), subscribe and disconnect.
InitSession == Empty /\ budget = MaxSession

NextSession ==
    \/ \E addr \in Peers, dg \in ConnectDgs : RxConnect(addr, dg)
    \/ \E addr \in Peers, dg \in WillTopicDgs : RxWillTopic(addr, dg)
    \/ \E addr \in Peers, dg \in WillMsgDgs : RxWillMsg(addr, dg)
    \/ \E addr \in Peers, dg \in PlainSubscribeDgs : RxSubscribe(addr, dg)
    \/ \E addr \in Peers, dg \in DisconnectDgs : RxDisconnect(addr, dg)
    \/ EgressLoop

SpecSession == InitSession /\ [][NextSession]_vars

\* ----------------------------------------------- the registry scenarios
\* One peer connects and subscribes to topic names, on a fresh registry or
\* on one in which ended sessions have interned 0xFFFF names as their Will
\* topics: the registry is never reclaimed, and the i-th of these names has
\* id i - 1. None of them is a name this peer subscribes to, so their pairs
\* are counted (interned_before) and not listed in topic_name_to_ids.
RegistryStarts == {0, TopicIdModulus - 1}
RegistrySubscribeDgs ==
    {dg \in SubscribeDgs :
        dg.topic_id_type = "NORMAL" /\ dg.qos \in {QOS_LEVEL_0, QOS_LEVEL_1}}

InitRegistry ==
    /\ NoSessions
    /\ \E k \in RegistryStarts :
           /\ topic_name_to_ids = {}
           /\ interned_before = k
           /\ global_topic_id = k
    /\ call = NoCall /\ ret = {}
    /\ budget = MaxRegistry

NextRegistry ==
    \/ \E dg \in PlainConnect : RxConnect(Subscriber, dg)
    \/ \E dg \in RegistrySubscribeDgs : RxSubscribe(Subscriber, dg)
    \/ \E dg \in RegistrySubscribeDgs : RxSubscribePanics(Subscriber, dg)
    \/ EgressLoop

SpecRegistry == InitRegistry /\ [][NextRegistry]_vars

\* ----------------------------------------------- the wildcard scenarios
\* One peer subscribes to a wildcard filter; the other subscribes to a topic
\* name, which interns it, and publishes.
WildcardSubscribeDgs ==
    {dg \in RegistrySubscribeDgs :
        dg.msg_id = 1 /\ dg.topic_name \in WildcardNames}
NameSubscribeDgs ==
    {dg \in RegistrySubscribeDgs :
        dg.msg_id = 1 /\ dg.topic_name \in NormalNames}
WildcardPublishDgs ==
    {dg \in FanoutPublishDgs :
        dg.msg_id = 1 /\ dg.qos \in {QOS_LEVEL_0, QOS_LEVEL_1}}

InitWildcard == Empty /\ budget = MaxWildcard

NextWildcard ==
    \/ \E addr \in Peers, dg \in PlainConnect : RxConnect(addr, dg)
    \/ \E dg \in WildcardSubscribeDgs : RxSubscribe(Subscriber, dg)
    \/ \E dg \in NameSubscribeDgs : RxSubscribe(Publisher, dg)
    \/ \E dg \in WildcardPublishDgs : RxPublish(Publisher, dg)
    \/ EgressLoop

SpecWildcard == InitWildcard /\ [][NextWildcard]_vars

\* ------------------------------------------------- the filter functions
\* valid_filter and match_topic, each called once on a filter, or on a topic
\* and a filter.
ValidFilterCalls ==
    {[fn |-> "valid_filter", filter |-> f] :
        f \in StringsUpTo(FilterChars, MaxFilterLen)}
MatchTopicCalls ==
    {[fn |-> "match_topic", topic |-> t, filter |-> f] :
        t \in StringsUpTo(TopicChars, MaxTopicLen),
        f \in StringsUpTo(FilterChars, MaxFilterLen)}

ValidFilterCall ==
    /\ call.fn = "valid_filter" /\ ret = {}
    /\ ret' = {Ok(ValidFilter(call.filter))}
    /\ UNCHANGED <<connVars, subVars, registryVars, filterVars, qosVars,
                   egress, ingress, idle, threads, budget, call>>

MatchTopicCall ==
    /\ call.fn = "match_topic" /\ ret = {}
    /\ ret' = {MatchTopic(call.topic, call.filter)}
    /\ UNCHANGED <<connVars, subVars, registryVars, filterVars, qosVars,
                   egress, ingress, idle, threads, budget, call>>

InitFilter ==
    /\ Fresh /\ budget = 0
    /\ call \in ValidFilterCalls \cup MatchTopicCalls
    /\ ret = {}

NextFilter == ValidFilterCall \/ MatchTopicCall

SpecFilter == InitFilter /\ [][NextFilter]_vars

\* --------------------------------------------- the wildcard-topic cache
\* insert_filter, match_topics and delete_filter called in any order.
CacheFilters ==
    {<<"a", "/", "#">>, <<"+", "/", "#">>, <<"a">>, <<"a", "/", "+">>}
CacheTopics == {<<"a">>, <<"a", "/", "a">>, <<"U+00E9">>}
Err == [tag |-> "err", val |-> FALSE]

\* BisetMap::collect: the left keys, each with its right values.
BisetLefts(m) == {x[1] : x \in m}

\* insert_filter
InsertFilter(filter, socket_add) ==
    /\ budget > 0
    /\ IF ValidFilter(filter)
       THEN /\ IF HasWildcards(filter)
               THEN /\ wildcard_filters' =
                          BisetInsert(wildcard_filters, filter, socket_add)
                    /\ UNCHANGED concrete_topics
               ELSE /\ concrete_topics' =
                          BisetInsert(concrete_topics, filter, socket_add)
                    /\ UNCHANGED wildcard_filters
            /\ ret' = {Ok(TRUE)}
       ELSE /\ UNCHANGED <<wildcard_filters, concrete_topics>>
            /\ ret' = {Err}
    /\ call' = [fn |-> "insert_filter", filter |-> filter,
                socket_add |-> socket_add]
    /\ budget' = budget - 1
    /\ UNCHANGED <<wildcard_topics, connVars, subVars, registryVars, qosVars,
                   egress, ingress, idle, threads>>

\* delete_filter
DeleteFilter(socket_add) ==
    /\ budget > 0
    /\ wildcard_filters' = BisetRevDelete(wildcard_filters, socket_add)
    /\ concrete_topics' = BisetRevDelete(concrete_topics, socket_add)
    /\ wildcard_topics' = BisetRevDelete(wildcard_topics, socket_add)
    /\ call' = [fn |-> "delete_filter", socket_add |-> socket_add]
    /\ ret' = {Ok(TRUE)}
    /\ budget' = budget - 1
    /\ UNCHANGED <<connVars, subVars, registryVars, qosVars, egress, ingress,
                   idle, threads>>

\* Ord of SocketAddr on the peers of the model.
AddrRank(a) == IF a = "p1" THEN 1 ELSE 2

\* Vec::sort
RECURSIVE SortedInsert(_, _)
SortedInsert(v, a) ==
    IF v = <<>> THEN <<a>>
    ELSE IF AddrRank(a) < AddrRank(Head(v)) THEN <<a>> \o v
    ELSE <<Head(v)>> \o SortedInsert(Tail(v), a)
RECURSIVE VecSort(_)
VecSort(v) ==
    IF v = <<>> THEN <<>> ELSE SortedInsert(VecSort(Tail(v)), Head(v))

\* Vec::dedup: of consecutive equal elements the first is kept.
RECURSIVE VecDedup(_)
VecDedup(v) ==
    IF Len(v) < 2 THEN v
    ELSE IF v[1] = v[2] THEN VecDedup(Tail(v))
    ELSE <<Head(v)>> \o VecDedup(Tail(v))

\* match_topics: the cache entry of the topic is filled from the wildcard
\* filters only when it is empty; the vector returned is the concrete
\* subscribers followed by the cached ones, sorted and deduplicated. The scan
\* panics in match_topic on a topic whose first character takes more than
\* one byte, before anything is inserted.
MatchTopics(topic) ==
    LET scan == BisetGet(wildcard_topics, topic) = {}
        panics ==
            scan /\ \E y \in wildcard_filters : MatchTopic(topic, y[1]) = Panic
        filled ==
            IF scan /\ ~panics
            THEN wildcard_topics \cup
                     {<<topic, x[2]>> : x \in
                         {y \in wildcard_filters :
                             MatchTopic(topic, y[1]) = Ok(TRUE)}}
            ELSE wildcard_topics
    IN  /\ budget > 0
        /\ wildcard_topics' = filled
        /\ call' = [fn |-> "match_topics", topic |-> topic]
        /\ IF panics THEN ret' = {Panic}
           ELSE \E concretes \in SeqsOf(BisetGet(concrete_topics, topic)),
                   wildcards \in SeqsOf(BisetGet(filled, topic)) :
                    ret' = {Ok(VecDedup(VecSort(concretes \o wildcards)))}
        /\ budget' = budget - 1
        /\ UNCHANGED <<wildcard_filters, concrete_topics, connVars, subVars,
                       registryVars, qosVars, egress, ingress, idle, threads>>

InitCache == Empty /\ budget = MaxCalls

NextCache ==
    \/ \E filter \in CacheFilters, socket_add \in Peers :
           InsertFilter(filter, socket_add)
    \/ \E socket_add \in Peers : DeleteFilter(socket_add)
    \/ \E topic \in CacheTopics : MatchTopics(topic)

SpecCache == InitCache /\ [][NextCache]_vars

\* ------------------------------------------------ the subscriber index
\* The functions of the topic-id index called in any order, together with
\* those of the wildcard-topic cache.
IndexIds == {0, 1}
IndexQoS == {QOS_LEVEL_0, QOS_LEVEL_1}

\* insert_subscriber_with_topic_id
InsertSubscriberWithTopicId(socket_add, id, qos) ==
    /\ budget > 0
    /\ topic_ids' = InsertSubscriberIds(topic_ids, socket_add, id)
    /\ topic_ids_qos' = InsertSubscriberQos(topic_ids_qos, socket_add, id, qos)
    /\ call' = [fn |-> "insert_subscriber_with_topic_id",
                socket_add |-> socket_add, id |-> id, qos |-> qos]
    /\ ret' = {Ok(TRUE)}
    /\ budget' = budget - 1
    /\ UNCHANGED <<connVars, registryVars, filterVars, qosVars, egress,
                   ingress, idle, threads>>

\* get_subscribers_with_topic_id, called on its own.
GetSubscribersCall(id) ==
    /\ budget > 0
    /\ call' = [fn |-> "get_subscribers_with_topic_id", id |-> id]
    /\ \E v \in GetSubscribersWithTopicId(id) : ret' = {Ok(v)}
    /\ budget' = budget - 1
    /\ UNCHANGED <<connVars, subVars, registryVars, filterVars, qosVars,
                   egress, ingress, idle, threads>>

\* delete_subscribers_with_socket_addr
DeleteSubscribersWithSocketAddr(socket_addr) ==
    /\ budget > 0
    /\ topic_ids' = BisetRevDelete(topic_ids, socket_addr)
    /\ call' = [fn |-> "delete_subscribers_with_socket_addr",
                socket_addr |-> socket_addr]
    /\ ret' = {Ok(TRUE)}
    /\ budget' = budget - 1
    /\ UNCHANGED <<topic_ids_qos, connVars, registryVars, filterVars, qosVars,
                   egress, ingress, idle, threads>>

InitIndex == Empty /\ budget = MaxCalls

NextIndex ==
    \/ \E socket_add \in Peers, id \in IndexIds, qos \in IndexQoS :
           InsertSubscriberWithTopicId(socket_add, id, qos)
    \/ \E id \in IndexIds : GetSubscribersCall(id)
    \/ \E socket_addr \in Peers : DeleteSubscribersWithSocketAddr(socket_addr)
    \/ \E filter \in CacheFilters, socket_add \in Peers :
           InsertFilter(filter, socket_add)
    \/ \E socket_add \in Peers : DeleteFilter(socket_add)
    \/ \E topic \in CacheTopics : MatchTopics(topic)

SpecIndex == InitIndex /\ [][NextIndex]_vars

\* ------------------------------------------ the acknowledgment scenarios
\* One peer subscribes with QoS 1 or 2 and answers what it is sent; the
\* other publishes, with or without a connection record.
AckSubscribeDgs ==
    {dg \in PlainSubscribeDgs : dg.qos \in {QOS_LEVEL_1, QOS_LEVEL_2}}
AckPublishDgs ==
    {dg \in FanoutPublishDgs :
        dg.data = SmallLen /\ dg.qos \in {QOS_LEVEL_0, QOS_LEVEL_1}}

InitAck == Empty /\ budget = MaxAck

NextAck ==
    \/ \E dg \in PlainConnect : RxConnect(Subscriber, dg)
    \/ \E dg \in AckSubscribeDgs : RxSubscribe(Subscriber, dg)
    \/ \E dg \in AckPublishDgs : RxPublish(Publisher, dg)
    \/ \E dg \in PubRecDgs : RxDropped(Subscriber, dg)
    \/ EgressLoop

SpecAck == InitAck /\ [][NextAck]_vars

\* ------------------------------------------- delete_filter || match_topics
\* One thread calls delete_filter once while another calls match_topics;
\* each step below is one critical section of one of the two threads, so the
\* steps of the two calls interleave as the locks allow. `threads` holds the
\* position and the locals of both, and the owner of the guard of
\* GLOBAL_WILDCARD_FILTERS, the only guard held across other statements.
RaceFilters == {<<"a", "/", "#">>, <<"+">>, <<"a">>}
RaceTopics == {<<"a">>, <<"U+00E9">>}
RaceOthers ==
    <<connVars, subVars, registryVars, qosVars, egress, ingress, idle>>

\* insert_filter, called before the two threads start.
RaceInsertFilter(filter, socket_add) ==
    /\ threads.d = "init" /\ threads.m = "idle"
    /\ InsertFilter(filter, socket_add)

\* delete_filter, first statement: lock().unwrap() panics when the mutex is
\* poisoned.
DeleteWildcardFilters(socket_add) ==
    /\ threads.d = "init" /\ budget > 0
    /\ threads.wf_lock # "M"
    /\ IF threads.wf_lock = "poisoned"
       THEN /\ threads' = [threads EXCEPT !.d = "panicked",
                                          !.peer = socket_add]
            /\ UNCHANGED wildcard_filters
       ELSE /\ wildcard_filters' =
                   BisetRevDelete(wildcard_filters, socket_add)
            /\ threads' = [threads EXCEPT !.d = "ct", !.peer = socket_add]
    /\ budget' = budget - 1
    /\ UNCHANGED <<concrete_topics, wildcard_topics, callVars, RaceOthers>>

\* delete_filter, second statement.
DeleteConcreteTopics ==
    /\ threads.d = "ct"
    /\ concrete_topics' = BisetRevDelete(concrete_topics, threads.peer)
    /\ threads' = [threads EXCEPT !.d = "wt"]
    /\ UNCHANGED <<wildcard_filters, wildcard_topics, budget, callVars,
                   RaceOthers>>

\* delete_filter, third statement, and the return.
DeleteWildcardTopics ==
    /\ threads.d = "wt"
    /\ wildcard_topics' = BisetRevDelete(wildcard_topics, threads.peer)
    /\ threads' = [threads EXCEPT !.d = "done"]
    /\ UNCHANGED <<wildcard_filters, concrete_topics, budget, callVars,
                   RaceOthers>>

\* match_topics: sock_vec is read from the cache.
MatchBegin(topic) ==
    /\ threads.m = "idle" /\ budget > 0
    /\ threads' = [threads EXCEPT
                      !.m = IF BisetGet(wildcard_topics, topic) = {}
                            THEN "collect" ELSE "read",
                      !.topic = topic,
                      !.sock_vec = BisetGet(wildcard_topics, topic)]
    /\ call' = [fn |-> "match_topics", topic |-> topic]
    /\ ret' = {}
    /\ budget' = budget - 1
    /\ UNCHANGED <<filterVars, RaceOthers>>

\* A scan whose guard is dropped once collect() has copied the filters.
MatchCollectUnlocked ==
    /\ threads.m = "collect"
    /\ threads.wf_lock = "none"
    /\ threads' = [threads EXCEPT !.m = "loop", !.todo = wildcard_filters]
    /\ UNCHANGED <<filterVars, budget, callVars, RaceOthers>>

\* match_topics: the iterator expression of the for loop locks
\* GLOBAL_WILDCARD_FILTERS and copies it; the guard is a temporary of that
\* expression and is dropped only when the loop is left.
MatchCollect ==
    /\ threads.m = "collect"
    /\ threads.wf_lock = "none"
    /\ threads' = [threads EXCEPT !.m = "loop", !.todo = wildcard_filters,
                                  !.wf_lock = "M"]
    /\ UNCHANGED <<filterVars, budget, callVars, RaceOthers>>

\* match_topics: one (filter, socket) of the copy, in the order the map
\* yields them. A panic in match_topic unwinds through the guard and poisons
\* the mutex.
MatchInsert ==
    /\ threads.m = "loop"
    /\ \E x \in threads.todo :
           LET r == MatchTopic(threads.topic, x[1])
           IN  IF r = Panic
               THEN /\ threads' =
                           [threads EXCEPT
                               !.m = "panicked",
                               !.wf_lock = IF @ = "M" THEN "poisoned" ELSE @]
                    /\ ret' = {Panic}
                    /\ UNCHANGED wildcard_topics
               ELSE /\ threads' = [threads EXCEPT !.todo = @ \ {x}]
                    /\ wildcard_topics' =
                           IF r = Ok(TRUE)
                           THEN BisetInsert(wildcard_topics, threads.topic,
                                            x[2])
                           ELSE wildcard_topics
                    /\ UNCHANGED ret
    /\ UNCHANGED <<wildcard_filters, concrete_topics, call, budget,
                   RaceOthers>>

\* match_topics: the loop is left and the guard dropped.
MatchUnlock ==
    /\ threads.m = "loop"
    /\ threads.todo = {}
    /\ threads' = [threads EXCEPT !.m = "read", !.wf_lock = "none"]
    /\ UNCHANGED <<filterVars, budget, callVars, RaceOthers>>

\* match_topics: wildcards is read from the cache.
MatchRead ==
    /\ threads.m = "read"
    /\ threads' = [threads EXCEPT
                      !.m = "concretes",
                      !.wildcards = BisetGet(wildcard_topics, threads.topic)]
    /\ UNCHANGED <<filterVars, budget, callVars, RaceOthers>>

\* match_topics: concretes is read, the two are appended, sorted and
\* deduplicated, and the call returns.
MatchReturn ==
    /\ threads.m = "concretes"
    /\ \E concretes \in SeqsOf(BisetGet(concrete_topics, threads.topic)),
          wildcards \in SeqsOf(threads.wildcards) :
           ret' = {Ok(VecDedup(VecSort(concretes \o wildcards)))}
    /\ threads' = [threads EXCEPT !.m = "idle"]
    /\ UNCHANGED <<filterVars, call, budget, RaceOthers>>

InitRace == Empty /\ budget = MaxRace

NextRace ==
    \/ \E filter \in RaceFilters, socket_add \in Peers :
           RaceInsertFilter(filter, socket_add)
    \/ \E socket_add \in Peers : DeleteWildcardFilters(socket_add)
    \/ DeleteConcreteTopics
    \/ DeleteWildcardTopics
    \/ \E topic \in RaceTopics : MatchBegin(topic)
    \/ MatchCollect
    \/ MatchInsert
    \/ MatchUnlock
    \/ MatchRead
    \/ MatchReturn

SpecRace == InitRace /\ [][NextRace]_vars

\* ------------------------------------------------ the keep-alive scenarios
\* Peers connect and send datagrams, well formed or not, while the wheel of
\* the keep-alive timers turns.

\* One second passes: every scheduled timer is a tick closer to its
\* deadline. No timer is let run to its deadline, 1.5 times the duration.
Tick ==
    /\ DOMAIN keep_alive # {}
    /\ \A a \in DOMAIN keep_alive : idle[a] < MaxIdle
    /\ idle' = [a \in Peers |->
                   IF a \in DOMAIN keep_alive THEN idle[a] + 1 ELSE idle[a]]
    /\ UNCHANGED <<connVars, subVars, registryVars, filterVars, qosVars,
                   egress, ingress, budget, callVars, threads>>

InitKeepAlive == Empty /\ budget = MaxKeepAlive

NextKeepAlive ==
    \/ \E addr \in Peers, dg \in PlainConnect : RxConnect(addr, dg)
    \/ \E addr \in Peers, dg \in PlainConnect : RxDropped(addr, dg)
    \/ \E addr \in Peers, dg \in BadHeaderDgs : RxBadHeader(addr, dg)
    \/ Tick
    \/ EgressLoop

SpecKeepAlive == InitKeepAlive /\ [][NextKeepAlive]_vars

\* ------------------------------------------------------------ the codecs
\* Frames are sequences of bytes here. U8 is the cast `as u8`.
U8(x) == x % 256

\* The payload of n bytes the functions are called with.
DataOf(n) == [i \in 1..n |-> U8(i)]

\* flags_set: DUP, QoS (two bits), RETAIN, WILL, CLEAN_SESSION and
\* TOPIC_ID_TYPE (two bits), from bit 7 down to bit 0.
FlagsSet(dup, qos, retain, will, clean_session, topic_id_type) ==
    dup * 128 + qos * 32 + retain * 16 + will * 8 + clean_session * 4
        + topic_id_type
FlagQosLevel(flags) == (flags \div 32) % 4
FlagIsRetain(flags) == (flags \div 16) % 2 = 1

\* Publish::send, the frame it builds: Err for a frame of 1400 bytes or more.
PublishBytes(topic_id, msg_id, qos, retain, data) ==
    LET len == Len(data) + MSG_LEN_PUBLISH_HEADER
        flags == FlagsSet(0, qos, IF retain THEN 1 ELSE 0, 0, 0, 0)
        msg_id_byte_1 == U8(msg_id)
        topic_id_byte_1 == U8(topic_id)
        msg_id_byte_0 == U8(msg_id \div 256)
        topic_id_byte_0 == U8(topic_id \div 256)
    IN  IF len < 256
        THEN Ok(<<U8(len), MSG_TYPE_PUBLISH, flags, msg_id_byte_0,
                  msg_id_byte_1, topic_id_byte_0, topic_id_byte_1>> \o data)
        ELSE IF len < MaxPublishLen
        THEN Ok(<<1, U8(len \div 256), U8(len), MSG_TYPE_PUBLISH, flags,
                  msg_id_byte_0, msg_id_byte_1, topic_id_byte_0,
                  topic_id_byte_1>> \o data)
        ELSE Err

\* MsgHeader::try_read: the offset of the last length octet (0 or 2) of a
\* frame whose declared length is its size; {} for any other frame.
MsgHeaderTryRead(buf) ==
    IF Len(buf) >= 2 /\ buf[1] # 1
    THEN IF buf[1] = Len(buf) THEN {0} ELSE {}
    ELSE IF Len(buf) >= 4 /\ buf[2] * 256 + buf[3] = Len(buf) THEN {2} ELSE {}

\* Publish::try_read behind MsgHeader::try_read, as Publish::recv calls them:
\* the fields of the struct in their order (len, msg_type, flags, topic_id,
\* msg_id, data), the integers big-endian, data the rest of the datagram.
PublishTryRead(buf) ==
    IF MsgHeaderTryRead(buf) = {} THEN Err
    ELSE LET o == CHOOSE x \in MsgHeaderTryRead(buf) : TRUE
         IN  IF Len(buf) < o + MSG_LEN_PUBLISH_HEADER THEN Panic
             ELSE Ok([topic_id |-> buf[o + 4] * 256 + buf[o + 5],
                      msg_id |-> buf[o + 6] * 256 + buf[o + 7],
                      qos |-> FlagQosLevel(buf[o + 3]),
                      retain |-> FlagIsRetain(buf[o + 3]),
                      data |-> SubSeq(buf, o + 8, Len(buf))])

\* PubRec::tx, the frame it builds.
PubRecTx(msg_id) ==
    LET msg_id_byte_0 == U8(msg_id)
        msg_id_byte_1 == U8(msg_id \div 256)
    IN  <<MSG_LEN_PUBREC, MSG_TYPE_PUBREC, msg_id_byte_1, msg_id_byte_0>>

\* PubRec::rx
PubRecRx(buf) ==
    IF buf[1] = MSG_LEN_PUBREC /\ buf[2] = MSG_TYPE_PUBREC
    THEN Ok((buf[3] + buf[4] * 256) % 65536)
    ELSE Err

\* The values the encoders are called with: ids around the byte boundary,
\* payloads around the two limits of the frame length.
CodecIds == {0, 1, 255, 256, 258, 65535}
CodecLens == {0, SmallLen, LongLen - 1, LongLen, BigLen - 1, BigLen}
PublishSendCalls ==
    {[fn |-> "Publish::send", topic_id |-> t, msg_id |-> m, qos |-> q,
      retain |-> r, data |-> DataOf(n)] :
        t \in CodecIds, m \in CodecIds,
        q \in {QOS_LEVEL_0, QOS_LEVEL_1, QOS_LEVEL_2},
        r \in BOOLEAN, n \in CodecLens}
PubRecTxCalls == {[fn |-> "PubRec::tx", msg_id |-> m] : m \in CodecIds}

PublishSendCall ==
    /\ call.fn = "Publish::send" /\ ret = {}
    /\ ret' = {PublishBytes(call.topic_id, call.msg_id, call.qos, call.retain,
                            call.data)}
    /\ UNCHANGED <<connVars, subVars, registryVars, filterVars, qosVars,
                   egress, ingress, idle, threads, budget, call>>

\* The frame Publish::send returned, given to the decoder.
PublishReadCall ==
    /\ call.fn = "Publish::send"
    /\ \E r \in ret :
        /\ r.tag = "ok"
        /\ call' = [fn |-> "Publish::try_read", buf |-> r.val]
        /\ ret' = {PublishTryRead(r.val)}
    /\ UNCHANGED <<connVars, subVars, registryVars, filterVars, qosVars,
                   egress, ingress, idle, threads, budget>>

PubRecTxCall ==
    /\ call.fn = "PubRec::tx" /\ ret = {}
    /\ ret' = {Ok(PubRecTx(call.msg_id))}
    /\ UNCHANGED <<connVars, subVars, registryVars, filterVars, qosVars,
                   egress, ingress, idle, threads, budget, call>>

\* The frame PubRec::tx returned, given to PubRec::rx.
PubRecRxCall ==
    /\ call.fn = "PubRec::tx"
    /\ \E r \in ret :
        /\ call' = [fn |-> "PubRec::rx", buf |-> r.val]
        /\ ret' = {PubRecRx(r.val)}
    /\ UNCHANGED <<connVars, subVars, registryVars, filterVars, qosVars,
                   egress, ingress, idle, threads, budget>>

InitCodec ==
    /\ Fresh /\ budget = 0
    /\ call \in PublishSendCalls \cup PubRecTxCalls
    /\ ret = {}

NextCodec ==
    PublishSendCall \/ PublishReadCall \/ PubRecTxCall \/ PubRecRxCall

SpecCodec == InitCodec /\ [][NextCodec]_vars

\* ------------------------------------------------------------ properties
\* What a step appends to the egress channel.
Sent ==
    IF Len(egress') > Len(egress)
    THEN SubSeq(egress', Len(egress) + 1, Len(egress'))
    ELSE <<>>
IsPublish(e) == e[2].msg_type = "PUBLISH"
PublishesTo(seq, a) == {i \in DOMAIN seq : seq[i][1] = a /\ IsPublish(seq[i])}
AsleepLen(cache, a) == IF a \in DOMAIN cache THEN Len(cache[a]) ELSE 0
Queued(a) == AsleepLen(asleep_msg_cache', a) - AsleepLen(asleep_msg_cache, a)
Delivers ==
    \/ \E i \in DOMAIN Sent : IsPublish(Sent[i])
    \/ \E a \in Peers : Queued(a) # 0

\* The subscriptions of a topic id, read off the two maps of the index.
SubscriberEntries(id) ==
    {e \in [socket_addr : Peers, qos : SubQoS] :
        /\ <<id, e.socket_addr>> \in topic_ids
        /\ <<<<id, e.socket_addr>>, e.qos>> \in topic_ids_qos}
Elems(seq) == {seq[i] : i \in DOMAIN seq}
Carries(publish) ==
    /\ \A i \in DOMAIN Sent :
           IsPublish(Sent[i]) =>
               /\ Sent[i][2].field_1 = publish.msg_id
               /\ Sent[i][2].field_2 = publish.topic_id
               /\ Sent[i][2].data = publish.data
    /\ \A a \in Peers :
           Queued(a) # 0 =>
               /\ Queued(a) > 0
               /\ \A i \in Len(asleep_msg_cache'[a]) - Queued(a) + 1
                               .. Len(asleep_msg_cache'[a]) :
                      asleep_msg_cache'[a][i] = publish

\* The retransmission key a PUBLISH frame on the egress channel is due.
PublishKey(e) ==
    RetransKey(e[1], IF e[2].qos = QOS_LEVEL_1 THEN "PUBACK" ELSE "PUBREC",
               0, e[2].field_1)
ChangedKeys ==
    {k \in DOMAIN retrans' : k \notin DOMAIN retrans \/ retrans'[k] # retrans[k]}

\* C1: a QoS 2 PUBLISH puts exactly a PUBREC to the publisher on the egress
\* channel, schedules that PUBREC for retransmission awaiting PUBREL, and
\* stores the publish under (publisher, msg id) with the topic's subscribers
\* as they are then; nothing reaches a subscriber in that step, and every
\* step that delivers a PUBLISH is a QoS 0 or 1 PUBLISH, the PUBREL of a
\* pending entry, carrying that entry's publish, or a Will.
C1_Post(addr, dg) ==
    LET key == <<addr, dg.msg_id>>
        rkey == RetransKey(addr, "PUBREL", 0, dg.msg_id)
        pubrec == [msg_type |-> "PUBREC", msg_id |-> dg.msg_id]
    IN  /\ egress' = Append(egress, <<addr, pubrec>>)
        /\ rkey \in DOMAIN retrans'
        /\ retrans'[rkey].frame = pubrec
        /\ ChangedKeys \subseteq {rkey}
        /\ DOMAIN retrans' = DOMAIN retrans \cup {rkey}
        /\ key \in DOMAIN pub_msg_cache'
        /\ pub_msg_cache'[key].publish = PublishOf(dg)
        /\ Elems(pub_msg_cache'[key].subscriber_vec)
               = SubscriberEntries(dg.topic_id)
        /\ Len(pub_msg_cache'[key].subscriber_vec)
               = Cardinality(SubscriberEntries(dg.topic_id))
        /\ asleep_msg_cache' = asleep_msg_cache
C1_Source ==
    \/ \E addr \in Peers,
          dg \in {d \in PublishDgs : d.qos \in {QOS_LEVEL_0, QOS_LEVEL_1}} :
           Carries(PublishOf(dg)) /\ RxPublish(addr, dg)
    \/ \E addr \in Peers, dg \in PubRelDgs :
           /\ <<addr, dg.msg_id>> \in DOMAIN pub_msg_cache
           /\ Carries(pub_msg_cache[<<addr, dg.msg_id>>].publish)
           /\ RxPubRel(addr, dg)
    \/ \E addr \in Peers, dg \in DisconnectDgs : RxDisconnect(addr, dg)
C1_Qos2Handshake ==
    [][/\ \A addr \in Peers, dg \in {d \in PublishDgs : d.qos = QOS_LEVEL_2} :
              (Received(addr) /\ RxPublish(addr, dg)) => C1_Post(addr, dg)
       /\ Delivers => C1_Source]_vars

\* A QoS 2 publish is pending with a subscriber in its snapshot, its PUBREC
\* on the egress channel and scheduled for retransmission.
C1_Witness ==
    \E key \in DOMAIN pub_msg_cache :
        /\ pub_msg_cache[key].subscriber_vec # <<>>
        /\ RetransKey(key[1], "PUBREL", 0, key[2]) \in DOMAIN retrans
        /\ egress = <<<<key[1], PubRecFrame(key[2])>>>>

\* C2: when a PUBREL completes a pending QoS 2 exchange, every subscriber in
\* the stored snapshot gets the publish exactly once, as a PUBLISH on the
\* egress channel or as an entry of its asleep queue.
C2_ExactlyOnce ==
    [][\A addr \in Peers, dg \in PubRelDgs :
           (<<addr, dg.msg_id>> \in DOMAIN pub_msg_cache /\ RxPubRel(addr, dg))
           => \A e \in Elems(pub_msg_cache[<<addr, dg.msg_id>>].subscriber_vec) :
                  Cardinality(PublishesTo(Sent, e.socket_addr))
                      + Queued(e.socket_addr) = 1]_vars

\* C3: a QoS 1 PUBLISH first puts PUBACK(topic id, msg id, accepted) to the
\* publisher on the egress channel; the fan-out follows it: every ACTIVE
\* subscriber of the topic gets a PUBLISH after the PUBACK.
C3_PubAckThenFanout ==
    [][\A addr \in Peers, dg \in PublishDgs :
           (dg.qos = QOS_LEVEL_1 /\ RxPublish(addr, dg))
           => /\ Sent # <<>>
              /\ Sent[1] = <<addr, [msg_type |-> "PUBACK",
                                    topic_id |-> dg.topic_id,
                                    msg_id |-> dg.msg_id,
                                    return_code |-> RETURN_CODE_ACCEPTED]>>
              /\ \A i \in 2 .. Len(Sent) : IsPublish(Sent[i])
              /\ \A e \in SubscriberEntries(dg.topic_id) :
                     GetState(e.socket_addr) = "ACTIVE"
                     => PublishesTo(Sent, e.socket_addr) # {}]_vars

\* C4: every PUBLISH a step puts on the egress channel at QoS 1 has a
\* retransmission entry awaiting PUBACK with 10 retries, at QoS 2 one
\* awaiting PUBREC with 1 retry, each holding that frame; the step creates
\* or changes no other entry awaiting PUBACK or PUBREC, so a QoS 0 or 3
\* PUBLISH and an asleep-queue entry have none.
C4_RetransPerPublish ==
    [][LET acked == {i \in DOMAIN Sent :
                        /\ IsPublish(Sent[i])
                        /\ Sent[i][2].qos \in {QOS_LEVEL_1, QOS_LEVEL_2}}
       IN  /\ \A i \in acked :
                 /\ PublishKey(Sent[i]) \in DOMAIN retrans'
                 /\ retrans'[PublishKey(Sent[i])] =
                        [retries |-> IF Sent[i][2].qos = QOS_LEVEL_1
                                     THEN 10 ELSE 1,
                         frame |-> Sent[i][2]]
           /\ {k \in ChangedKeys : k[2] \in {"PUBACK", "PUBREC"}}
                  \subseteq {PublishKey(Sent[i]) : i \in acked}]_vars

\* PUBLISH frames of QoS 0 and of QoS 1 are on the egress channel and the
\* wheel holds the entry of the QoS 1 frame, no other.
C4_Witness ==
    \E i, j \in DOMAIN egress :
        /\ IsPublish(egress[i]) /\ egress[i][2].qos = QOS_LEVEL_1
        /\ IsPublish(egress[j]) /\ egress[j][2].qos = QOS_LEVEL_0
        /\ DOMAIN retrans = {PublishKey(egress[i])}

\* C5: in the fan-out of a QoS 0 or 1 PUBLISH an ASLEEP subscriber gets the
\* publish in its asleep queue and no frame on the egress channel, an ACTIVE
\* subscriber gets a PUBLISH on the egress channel and nothing in its queue.
C5_AsleepOrActive ==
    [][\A addr \in Peers, dg \in PublishDgs :
           (dg.qos \in {QOS_LEVEL_0, QOS_LEVEL_1} /\ RxPublish(addr, dg))
           => \A e \in SubscriberEntries(dg.topic_id) :
                  /\ GetState(e.socket_addr) = "ASLEEP"
                     => /\ Queued(e.socket_addr) >= 1
                        /\ PublishesTo(Sent, e.socket_addr) = {}
                  /\ GetState(e.socket_addr) = "ACTIVE"
                     => /\ PublishesTo(Sent, e.socket_addr) # {}
                        /\ Queued(e.socket_addr) = 0]_vars

\* The peers the subscription structures, the retransmission wheel and the
\* asleep cache refer to.
SubscriptionPeers ==
    BisetRights(topic_ids) \cup {x[1][2] : x \in topic_ids_qos}
    \cup BisetRights(concrete_topics) \cup BisetRights(wildcard_filters)
    \cup BisetRights(wildcard_topics)
RetransPeers == {k[1] : k \in DOMAIN retrans}
Destroys(addr) ==
    \E dg \in DisconnectDgs :
        dg.size = MSG_LEN_DISCONNECT /\ RxDisconnect(addr, dg)

\* C6: once a DISCONNECT without duration has destroyed a peer's connection,
\* no subscription structure, no retransmission entry and no asleep queue
\* refers to the peer.
C6_NoTraceOfPeer ==
    [][\A addr \in Peers :
           Destroys(addr)
           => /\ addr \notin SubscriptionPeers'
              /\ addr \notin RetransPeers'
              /\ addr \notin DOMAIN asleep_msg_cache']_vars

\* C7: every peer in a subscription structure has a connection record.
C7_SubscribersConnected == SubscriptionPeers \subseteq DOMAIN conn

C9_ActiveDisconnect ==
    [][\A addr \in Peers :
           (GetState(addr) = "ACTIVE" /\ Destroys(addr))
           => /\ addr \notin DOMAIN conn'
              /\ addr \notin DOMAIN keep_alive'
              /\ Sent # <<>>
              /\ Sent[1] = <<addr, [msg_type |-> "DISCONNECT"]>>]_vars

\* A peer is gone, its timer with it, the DISCONNECT reply is on the egress
\* channel; the other peer is still connected.
C9_Witness ==
    \E addr \in Peers :
        /\ addr \notin DOMAIN conn
        /\ addr \notin DOMAIN keep_alive
        /\ DOMAIN conn # {}
        /\ egress # <<>>
        /\ egress[1] = <<addr, DisconnectFrame>>

\* C10: a DISCONNECT without duration from an ACTIVE peer that stored a Will
\* puts, for every subscription of the Will topic, a PUBLISH of the Will
\* payload at the subscription's QoS on the egress channel; from a peer that
\* is not ACTIVE or stored no Will it puts no PUBLISH there.
C10_WillPublished ==
    [][\A addr \in Peers :
           Destroys(addr)
           => IF GetState(addr) = "ACTIVE" /\ conn[addr].will_topic_id # {}
              THEN \A t \in conn[addr].will_topic_id :
                       \A e \in SubscriberEntries(t) :
                           \E i \in PublishesTo(Sent, e.socket_addr) :
                               /\ Sent[i][2].qos = e.qos
                               /\ Sent[i][2].data = conn[addr].will_message
              ELSE \A i \in DOMAIN Sent : ~IsPublish(Sent[i])]_vars

\* C11: a DISCONNECT with a duration from an ACTIVE peer leaves the peer's
\* connection record in place with state ASLEEP and nothing else changed,
\* schedules the peer's timer with the duration given, and puts exactly a
\* DISCONNECT to the peer on the egress channel.
C11_ActiveToAsleep ==
    [][\A addr \in Peers, dg \in DisconnectDgs :
           (/\ dg.size = MSG_LEN_DISCONNECT_DURATION
            /\ GetState(addr) = "ACTIVE"
            /\ RxDisconnect(addr, dg))
           => /\ addr \in DOMAIN conn'
              /\ conn' = [conn EXCEPT ![addr].state = "ASLEEP"]
              /\ addr \in DOMAIN keep_alive'
              /\ keep_alive'[addr] = dg.duration
              /\ Sent = <<<<addr, [msg_type |-> "DISCONNECT"]>>>>]_vars

\* A peer that connected with a Will and went to sleep: its record, Will
\* included, is kept, its timer runs on the sleep duration and the
\* DISCONNECT reply is on the egress channel.
C11_Witness ==
    \E addr \in DOMAIN conn :
        /\ conn[addr].state = "ASLEEP"
        /\ conn[addr].will_topic_id # {}
        /\ conn[addr].will_message \in Payloads
        /\ addr \in DOMAIN keep_alive
        /\ keep_alive[addr] = SleepDuration
        /\ egress = <<<<addr, DisconnectFrame>>>>

\* The step the ingress loop takes on one datagram of one peer.
Dispatch(addr, dg) ==
    \/ RxConnect(addr, dg) \/ RxWillTopic(addr, dg) \/ RxWillMsg(addr, dg)
    \/ RxSubscribe(addr, dg) \/ RxPublish(addr, dg) \/ RxPubRel(addr, dg)
    \/ RxDisconnect(addr, dg) \/ RxDropped(addr, dg)
    \/ RxBadHeader(addr, dg) \/ RxTruncated(addr, dg)

\* C12: a datagram of a peer without a connection record whose type is
\* neither CONNECT nor PUBLISH changes nothing: no reply on the egress
\* channel, and the connection table, the subscription index, the topic
\* registry and the QoS state stay as they were (a step either leaves all of
\* these alone or is not the step of such a datagram).
C12_UnknownPeerDropped ==
    [][\/ /\ Sent = <<>>
          /\ UNCHANGED <<connVars, subVars, registryVars, qosVars>>
       \/ ~\E addr \in Peers, dg \in Datagrams \cup TruncatedDgs :
              /\ ~Known(addr)
              /\ dg.msg_type \notin {"CONNECT", "PUBLISH"}
              /\ Dispatch(addr, dg)]_vars

\* One peer is connected and subscribed, the other has no record, and the
\* last datagram the loop could take has left no reply and no state.
C12_Witness ==
    /\ budget = 0
    /\ ingress = "running"
    /\ DOMAIN conn = {"p1"}
    /\ BisetRights(topic_ids) = {"p1"}
    /\ egress = <<>>
    /\ retrans = EmptyMap /\ pub_msg_cache = EmptyMap
    /\ retain_store = EmptyMap

\* C13: a QoS 3 PUBLISH of a peer without a connection record is fanned out:
\* the step is the one send_msg_to_subscribers makes for the subscribers of
\* its topic id.
C13_AnonymousPublishFansOut ==
    [][\A addr \in Peers, dg \in PublishDgs :
           (/\ ~Known(addr)
            /\ dg.qos = QOS_LEVEL_3
            /\ RxPublish(addr, dg))
           => \E subscriber_vec \in GetSubscribersWithTopicId(dg.topic_id) :
                  LET st == SendMsgToSubscribers(subscriber_vec, PublishOf(dg),
                                Out(egress, retrans, asleep_msg_cache))
                  IN  /\ egress' = st.egress
                      /\ retrans' = st.retrans
                      /\ asleep_msg_cache' = st.asleep]_vars

\* C14: a datagram whose header or body does not decode leaves the
\* connection table as it was, and the ingress loop keeps running.
C14_MalformedDropped ==
    [][\A addr \in Peers, dg \in BadHeaderDgs \cup TruncatedDgs :
           Dispatch(addr, dg) => conn' = conn /\ ingress' = "running"]_vars

\* C15: a PUBLISH of a known peer that is not ACTIVE is refused: nothing is
\* put on the egress channel, no QoS or retained state is created, and the
\* connection table is unchanged.
C15_PublishRefusedByState ==
    [][\A addr \in Peers, dg \in PublishDgs :
           (/\ Known(addr)
            /\ GetState(addr) # "ACTIVE"
            /\ RxPublish(addr, dg))
           => /\ Sent = <<>>
              /\ UNCHANGED <<connVars, qosVars>>]_vars

\* The topic ids GLOBAL_TOPIC_NAME_TO_IDS binds to a name.
BoundIds == BisetRights(topic_name_to_ids) \cup (0 .. interned_before - 1)

\* C16: a SUBSCRIBE with a normal topic name that the handler accepts leaves
\* the name interned under an id, the pair (id, sender) in the topic-id map
\* with the QoS asked for, and puts on the egress channel exactly one frame:
\* a SUBACK to the sender with that id, the msg id and the QoS of the
\* SUBSCRIBE, and return code Accepted.
C16_SubscribeRecorded ==
    [][\A addr \in Peers, dg \in RegistrySubscribeDgs :
           RxSubscribe(addr, dg)
           => \E id \in BisetGet(topic_name_to_ids', dg.topic_name) :
                  /\ <<id, addr>> \in topic_ids'
                  /\ <<<<id, addr>>, dg.qos>> \in topic_ids_qos'
                  /\ Sent = <<<<addr, [msg_type |-> "SUBACK", qos |-> dg.qos,
                                       topic_id |-> id, msg_id |-> dg.msg_id,
                                       return_code |-> RETURN_CODE_ACCEPTED]>>>>]_vars

\* The second name has been subscribed to with QoS 1 and msg id 2: it is
\* interned, the subscription is recorded and the SUBACK is on its way.
C16_Witness ==
    \E id \in BisetGet(topic_name_to_ids, <<"b">>) :
        /\ <<id, Subscriber>> \in topic_ids
        /\ <<<<id, Subscriber>>, QOS_LEVEL_1>> \in topic_ids_qos
        /\ egress = <<<<Subscriber,
                        SubAckFrame(QOS_LEVEL_1, id, 2, RETURN_CODE_ACCEPTED)>>>>

\* C17: every topic id bound to a topic name lies in 1 .. 0xFFFE.
C17_TopicIdRange ==
    BoundIds \subseteq 1 .. TopicIdModulus - 2

\* C18: a SUBSCRIBE of an interned name returns the id the name has and
\* leaves the registry alone; a SUBSCRIBE of a new name returns an id that
\* no name is bound to, 0 on an empty registry and 1 on a registry holding
\* one name under id 0. The id returned is the one the SUBACK carries.
C18_SameIdOrNextUnused ==
    [][\A dg \in RegistrySubscribeDgs :
           RxSubscribe(Subscriber, dg)
           => LET have == BisetGet(topic_name_to_ids, dg.topic_name)
                  id == Sent[1][2].topic_id
              IN  IF have # {}
                  THEN have = {id} /\ UNCHANGED registryVars
                  ELSE /\ id \notin BoundIds
                       /\ topic_name_to_ids'
                              = topic_name_to_ids \cup {<<dg.topic_name, id>>}
                       /\ BoundIds = {} => id = 0
                       /\ BoundIds = {0} => id = 1]_vars

\* C19: the registry is a bijection between names and ids: as many names,
\* and as many ids, as pairs.
C19_RegistryBijection ==
    /\ Cardinality({x[1] : x \in topic_name_to_ids})
           = Cardinality(topic_name_to_ids)
    /\ Cardinality(BoundIds)
           = Cardinality(topic_name_to_ids) + interned_before

\* C20: the SUBACK that answers a SUBSCRIBE whose topic name has a wildcard
\* carries topic id 0 and the QoS of the SUBSCRIBE (stated for a broker whose
\* registry started empty).
C20_WildcardSubAckIdZero ==
    [][\A dg \in RegistrySubscribeDgs :
           (/\ interned_before = 0
            /\ HasWildcards(dg.topic_name)
            /\ RxSubscribe(Subscriber, dg))
           => Sent = <<<<Subscriber, SubAckFrame(dg.qos, 0, dg.msg_id,
                                                 RETURN_CODE_ACCEPTED)>>>>]_vars

\* The rule the claims call a valid filter: not empty, a '#' only as the
\* last character and after a '/', a '+' only as a whole level.
StrictValid(filter) ==
    /\ filter # <<>>
    /\ \A i \in DOMAIN filter :
           filter[i] = "#" => i = Len(filter) /\ i > 1 /\ filter[i - 1] = "/"
    /\ \A i \in DOMAIN Split(filter) :
           (\E j \in DOMAIN Split(filter)[i] : Split(filter)[i][j] = "+")
           => Split(filter)[i] = <<"+">>

\* Level by level: the levels of the filter before a final '#' equal the
\* topic's levels at the same places or are '+', and the topic has as many
\* levels as the filter unless the filter ends in '#'.
LevelsMatch(topic, filter) ==
    LET tl == Split(topic)
        fl == Split(filter)
        hash == fl[Len(fl)] = <<"#">>
        n == IF hash THEN Len(fl) - 1 ELSE Len(fl)
    IN  /\ Len(tl) >= n
        /\ \A i \in 1 .. n : fl[i] = <<"+">> \/ fl[i] = tl[i]
        /\ hash \/ Len(tl) = Len(fl)

\* C24: valid_filter returns true exactly for the filters that are not
\* empty, have '#' only as last character after a '/', and have '+' only as
\* a whole level.
C24_ValidFilterStrict ==
    (call.fn = "valid_filter" /\ ret # {})
    => ret = {Ok(StrictValid(call.filter))}

\* C25: match_topic returns false for a topic that starts with '$' and a
\* filter that has a wildcard.
C25_DollarTopicNeverMatches ==
    (/\ call.fn = "match_topic" /\ ret # {}
     /\ HasWildcards(call.filter)
     /\ call.topic # <<>> /\ call.topic[1] = "$")
    => ret = {Ok(FALSE)}

\* match_topic has returned for the topic "$/a" and the filter "+/a", which
\* matches it level by level.
C25_Witness ==
    /\ call = [fn |-> "match_topic", topic |-> <<"$", "/", "a">>,
               filter |-> <<"+", "/", "a">>]
    /\ LevelsMatch(call.topic, call.filter)
    /\ ret = {Ok(FALSE)}

\* C26: for a topic without wildcards that does not start with '$' and a
\* valid filter, match_topic returns whether the two match level by level.
C26_MatchTopicByLevels ==
    (/\ call.fn = "match_topic" /\ ret # {}
     /\ ~HasWildcards(call.topic)
     /\ ~(call.topic # <<>> /\ call.topic[1] = "$")
     /\ StrictValid(call.filter))
    => ret = {Ok(LevelsMatch(call.topic, call.filter))}

\* C27: a topic with a cache entry has under it exactly the peers that
\* subscribe to a wildcard filter matching the topic.
C27_CacheIsUnionOfMatches ==
    \A topic \in BisetLefts(wildcard_topics) :
        BisetGet(wildcard_topics, topic)
            = {x[2] : x \in {y \in wildcard_filters :
                                MatchTopic(topic, y[1]) = Ok(TRUE)}}

\* The peers subscribed, through the topic-id map, to a wildcard filter that
\* matches the name the registry binds to a topic id.
WildcardSubscribers(topic_id) ==
    {x[2] : x \in
        {y \in topic_ids :
            \E f \in topic_name_to_ids, t \in topic_name_to_ids :
                /\ f[2] = y[1] /\ HasWildcards(f[1])
                /\ t[2] = topic_id /\ ~HasWildcards(t[1])
                /\ MatchTopic(t[1], f[1]) = Ok(TRUE)}}

\* C21: a PUBLISH on a topic whose name matches a wildcard filter an ACTIVE
\* peer has subscribed to puts a PUBLISH to that peer on the egress channel
\* (stated for payloads of SmallLen bytes).
C21_WildcardSubscriberReceives ==
    [][\A dg \in WildcardPublishDgs :
           (/\ dg.data = SmallLen
            /\ Subscriber \in WildcardSubscribers(dg.topic_id)
            /\ GetState(Subscriber) = "ACTIVE"
            /\ RxPublish(Publisher, dg))
           => PublishesTo(Sent, Subscriber) # {}]_vars

\* The retained store holds, after the step, this payload and QoS under this
\* topic id.
Retained(topic_id, qos, data) ==
    /\ topic_id \in DOMAIN retain_store'
    /\ retain_store'[topic_id].qos = qos
    /\ retain_store'[topic_id].data = data

\* C22: a PUBLISH with RETAIN set overwrites the retained-store entry of its
\* topic id with its payload and QoS: a QoS 0 or QoS 1 PUBLISH in the step
\* that receives it, a QoS 2 PUBLISH at the latest in the step that receives
\* its PUBREL.
C22_RetainOverwrites ==
    [][/\ \A addr \in Peers, dg \in PublishDgs :
              (/\ dg.retain /\ dg.qos \in {QOS_LEVEL_0, QOS_LEVEL_1}
               /\ RxPublish(addr, dg))
              => Retained(dg.topic_id, dg.qos, dg.data)
       /\ \A addr \in Peers, dg \in PubRelDgs :
              (/\ <<addr, dg.msg_id>> \in DOMAIN pub_msg_cache
               /\ pub_msg_cache[<<addr, dg.msg_id>>].publish.retain
               /\ RxPubRel(addr, dg))
              => LET publish == pub_msg_cache[<<addr, dg.msg_id>>].publish
                 IN  Retained(publish.topic_id, QOS_LEVEL_2, publish.data)]_vars

\* C23: a SUBSCRIBE of an ACTIVE peer to a topic id it was not subscribed to,
\* for which the retained store holds a message of SmallLen bytes, puts two
\* frames on the egress channel: the SUBACK, then one PUBLISH to the peer
\* with RETAIN set and the retained payload.
C23_RetainedDeliveredOnSubscribe ==
    [][\A addr \in Peers, dg \in PlainSubscribeDgs :
           (/\ RxSubscribe(addr, dg)
            /\ GetState(addr) = "ACTIVE"
            /\ Sent # <<>>
            /\ Sent[1][2].topic_id \in DOMAIN retain_store
            /\ retain_store[Sent[1][2].topic_id].data = SmallLen
            /\ <<Sent[1][2].topic_id, addr>> \notin topic_ids)
           => /\ Len(Sent) = 2
              /\ Sent[1][2].msg_type = "SUBACK"
              /\ Sent[2][1] = addr
              /\ Sent[2][2].msg_type = "PUBLISH"
              /\ Sent[2][2].retain
              /\ Sent[2][2].data = SmallLen]_vars

\* The value of a call of Publish::send.
PublishValue(c) ==
    [topic_id |-> c.topic_id, msg_id |-> c.msg_id, qos |-> c.qos,
     retain |-> c.retain, data |-> c.data]

\* The bytes i and i + 1 of a frame hold x, big-endian.
BigEndianAt(buf, i, x) == buf[i] = x \div 256 /\ buf[i + 1] = x % 256

\* C28: decoding the frame Publish::send emitted yields the topic id, msg id,
\* QoS, retain flag and data it was called with, and in that frame the topic
\* id occupies the two bytes after the flags octet and the msg id the two
\* bytes after that, both big-endian.
C28_PublishRoundTrip ==
    [][PublishReadCall =>
          /\ \A r \in ret' : r.tag = "ok" /\ r.val = PublishValue(call)
          /\ \A r \in ret :
                 LET o == IF r.val[1] = 1 THEN 2 ELSE 0
                 IN  /\ BigEndianAt(r.val, o + 4, call.topic_id)
                     /\ BigEndianAt(r.val, o + 6, call.msg_id)]_vars

\* C29: PubRec::rx applied to the frame PubRec::tx built for a msg id
\* returns that msg id, and the frame holds the msg id big-endian.
C29_PubRecRoundTrip ==
    [][PubRecRxCall =>
          /\ \A r \in ret : BigEndianAt(r.val, 3, call.msg_id)
          /\ \A r \in ret' : r.tag = "ok" /\ r.val = call.msg_id]_vars

\* C30: Publish::send refuses no payload whose frame is at most 65535 bytes
\* long; a frame of at most 255 bytes starts with its length in one byte, a
\* longer one with byte 1 and its length in two bytes, big-endian; the length
\* so declared is the number of bytes of the frame.
C30_PublishLengthPrefix ==
    (call.fn = "Publish::send" /\ ret # {}) =>
        \A r \in ret :
            /\ r.tag = "ok"
            /\ IF Len(call.data) + MSG_LEN_PUBLISH_HEADER < 256
               THEN r.val[1] = Len(r.val)
               ELSE /\ r.val[1] = 1
                    /\ r.val[2] * 256 + r.val[3] = Len(r.val)

\* C31: the PUBREC a subscriber sends for a QoS 2 PUBLISH the broker is
\* waiting on removes the retransmission entry of that PUBLISH (the key it
\* was scheduled under), puts a PUBREL for the subscriber on the egress
\* channel and schedules the retransmission that waits for its PUBCOMP.
C31_PubRecCancelsPublish ==
    [][\A dg \in PubRecDgs :
           (/\ RetransKey(Subscriber, "PUBREC", 0, dg.msg_id) \in DOMAIN retrans
            /\ Dispatch(Subscriber, dg))
           => /\ RetransKey(Subscriber, "PUBREC", 0, dg.msg_id)
                     \notin DOMAIN retrans'
              /\ Len(Sent) = 1
              /\ Sent[1][1] = Subscriber
              /\ Sent[1][2].msg_type = "PUBREL"
              /\ Sent[1][2].msg_id = dg.msg_id
              /\ \E k \in DOMAIN retrans' :
                     k[1] = Subscriber /\ k[2] = "PUBCOMP"
                     /\ k[4] = dg.msg_id]_vars

\* A filter matches a topic: level by level, and never a topic that starts
\* with '$'.
Matches(topic, filter) ==
    LevelsMatch(topic, filter) /\ ~(topic # <<>> /\ topic[1] = "$")
NoDuplicate(v) == \A i, j \in DOMAIN v : v[i] = v[j] => i = j
Elements(v) == {v[i] : i \in DOMAIN v}

\* C34: match_topics(T) leaves under T in the resolved-wildcard cache what
\* was there, or, when nothing was, exactly the subscribers of the wildcard
\* filters that match T; it returns a vector without duplicates whose
\* elements are the concrete subscribers of T and the peers cached under T.
C34_MatchTopicsIsDelivery ==
    [][\A topic \in CacheTopics :
           MatchTopics(topic) =>
               LET cached == BisetGet(wildcard_topics, topic)
                   matching == {x[2] : x \in {y \in wildcard_filters :
                                                 Matches(topic, y[1])}}
                   entry == IF cached = {} THEN matching ELSE cached
               IN  /\ BisetGet(wildcard_topics', topic) = entry
                   /\ \A r \in ret' :
                          /\ r.tag = "ok"
                          /\ NoDuplicate(r.val)
                          /\ Elements(r.val) =
                                 BisetGet(concrete_topics, topic) \cup entry]_vars

\* The peers found in one of the four subscription structures: wildcard
\* filters, concrete topics, resolved-wildcard cache, and the topic-id map
\* with its per-subscriber QoS.
Subscribed(wf, ct, wt, ids, idq) ==
    BisetRights(wf) \cup BisetRights(ct) \cup BisetRights(wt)
        \cup BisetRights(ids) \cup {x[1][2] : x \in idq}

\* The part of a BisetMap that is not about a peer; of the QoS map, whose
\* keys are (topic id, peer).
WithoutPeer(m, a) == {x \in m : x[2] # a}
QosWithoutPeer(m, a) == {x \in m : x[1][2] # a}

\* C32: after delete_filter(P), and after
\* delete_subscribers_with_socket_addr(P), P is in none of the four
\* subscription structures, and what they hold about the other peers is
\* what they held before.
C32_RemovalScansAllFour ==
    [][\A a \in Peers :
           (DeleteFilter(a) \/ DeleteSubscribersWithSocketAddr(a))
           => /\ a \notin Subscribed(wildcard_filters', concrete_topics',
                                     wildcard_topics', topic_ids',
                                     topic_ids_qos')
              /\ WithoutPeer(wildcard_filters', a)
                     = WithoutPeer(wildcard_filters, a)
              /\ WithoutPeer(concrete_topics', a)
                     = WithoutPeer(concrete_topics, a)
              /\ WithoutPeer(wildcard_topics', a)
                     = WithoutPeer(wildcard_topics, a)
              /\ WithoutPeer(topic_ids', a) = WithoutPeer(topic_ids, a)
              /\ QosWithoutPeer(topic_ids_qos', a)
                     = QosWithoutPeer(topic_ids_qos, a)]_vars

\* C35: the vector get_subscribers_with_topic_id returns has at most one
\* entry for a peer, whatever calls of insert_subscriber_with_topic_id and
\* delete_subscribers_with_socket_addr came before.
C35_OneEntryPerPeer ==
    (call.fn = "get_subscribers_with_topic_id") =>
        \A r \in ret : \A i, j \in DOMAIN r.val :
            r.val[i].socket_addr = r.val[j].socket_addr => i = j

\* C38: the Will publication of a DISCONNECT puts no PUBLISH on the egress
\* channel for a peer that is ASLEEP or has no connection record once the
\* disconnecting peer is removed, and an ASLEEP subscriber of the Will topic
\* gets the Will in its asleep queue.
C38_WillRespectsState ==
    [][\A addr \in Peers :
           Destroys(addr)
           => /\ \A i \in DOMAIN Sent :
                     IsPublish(Sent[i])
                     => /\ Sent[i][1] \in DOMAIN conn'
                        /\ conn'[Sent[i][1]].state # "ASLEEP"
              /\ \A t \in conn[addr].will_topic_id, s \in Peers :
                     (/\ GetState(addr) = "ACTIVE"
                      /\ s # addr /\ GetState(s) = "ASLEEP"
                      /\ s \in BisetGet(topic_ids, t))
                     => AsleepLen(asleep_msg_cache', s)
                            > AsleepLen(asleep_msg_cache, s)]_vars

\* The steps in which Disconnect::recv returns an error: a datagram of
\* neither length, or a DISCONNECT without duration of a peer whose timer
\* cannot be cancelled.
DisconnectFails(addr) ==
    \E dg \in DisconnectDgs :
        /\ RxDisconnect(addr, dg)
        /\ \/ dg.size \notin {MSG_LEN_DISCONNECT, MSG_LEN_DISCONNECT_DURATION}
           \/ dg.size = MSG_LEN_DISCONNECT /\ addr \notin DOMAIN keep_alive

\* C39: a Disconnect::recv that returns an error leaves the connection
\* table, with the state of the peer, and the timers as they were.
C39_FailedDisconnectChangesNothing ==
    [][\A addr \in Peers :
           DisconnectFails(addr) => UNCHANGED <<conn, keep_alive>>]_vars

\* The deliveries with QoS 1 or 2 a step puts on the egress channel.
AckedDeliveries(seq) ==
    {i \in DOMAIN seq : IsPublish(seq[i]) /\ seq[i][2].qos \in {1, 2}}

\* C36: no acknowledgment being processed, every delivery is outstanding:
\* the retransmission key of a delivery with QoS 1 or 2 the broker sends is
\* the key of no entry the wheel already holds.
C36_DistinctRetransKeys ==
    [][\A dg \in AckPublishDgs :
           RxPublish(Publisher, dg)
           => \A i \in AckedDeliveries(Sent) :
                  PublishKey(Sent[i]) \notin DOMAIN retrans]_vars

\* C37: the step that receives a PUBLISH of QoS 0, 1 or 2 from a peer
\* without a connection record leaves the pending-QoS2 cache, the
\* retransmission wheel, the retained store and the asleep queues as they
\* were and puts no PUBLISH on the egress channel (a step either does so or
\* is not the step of such a PUBLISH).
C37_UnknownPublisherRefused ==
    [][\/ /\ UNCHANGED <<pub_msg_cache, retrans, retain_store,
                         asleep_msg_cache>>
          /\ \A i \in DOMAIN Sent : ~IsPublish(Sent[i])
       \/ ~\E addr \in Peers, dg \in PublishDgs :
              /\ ~Known(addr)
              /\ dg.qos \in {QOS_LEVEL_0, QOS_LEVEL_1, QOS_LEVEL_2}
              /\ RxPublish(addr, dg)]_vars

\* C33: the step that receives a datagram of a peer with a connection
\* record restarts the count of the peer's timer, whatever the datagram;
\* when the header of the datagram is refused the timer stays scheduled with
\* its duration and nothing else changes: no record, no subscription, no
\* QoS state, no reply, and the loop keeps running.
C33_RefreshBeforeDecode ==
    [][\A addr \in Peers :
           /\ \A dg \in PlainConnect \cup BadHeaderDgs :
                  (Known(addr) /\ Dispatch(addr, dg)) => idle'[addr] = 0
           /\ \A dg \in BadHeaderDgs :
                  (Known(addr) /\ RxBadHeader(addr, dg))
                  => /\ idle' = [idle EXCEPT ![addr] = 0]
                     /\ UNCHANGED <<connVars, subVars, registryVars,
                                    filterVars, qosVars, egress, ingress>>]_vars

\* Both peers are connected and their CONNACKs are gone; a third datagram
\* was received; the timer of p2 has run MaxIdle ticks and the count of p1 is
\* at zero.
C33_Witness ==
    /\ DOMAIN conn = Peers
    /\ DOMAIN keep_alive = Peers
    /\ egress = <<>>
    /\ budget = MaxKeepAlive - 3
    /\ idle["p1"] = 0
    /\ idle["p2"] = MaxIdle

\* C40: once delete_filter(P) has returned, P is a subscriber in none of the
\* wildcard-filter map, the concrete-topic map and the wildcard-topic cache,
\* whether the other thread is between two match_topics calls or inside
\* one: no step of a lookup in flight puts P back into the cache.
C40_DeleteFilterWinsRace ==
    threads.d = "done" =>
        threads.peer \notin BisetRights(wildcard_filters)
                            \cup BisetRights(concrete_topics)
                            \cup BisetRights(wildcard_topics)

\* delete_filter(P) ran while a lookup was in flight: both have returned,
\* the lookup scanned the filters and read P from the cache before
\* delete_filter removed it there, and P is gone from the three maps.
C40_Witness ==
    /\ threads.d = "done" /\ threads.m = "idle"
    /\ threads.sock_vec = {}
    /\ threads.peer \in threads.wildcards
    /\ \E r \in ret : r.tag = "ok" /\ \E i \in DOMAIN r.val :
                                          r.val[i] = threads.peer
    /\ threads.peer \notin BisetRights(wildcard_filters)
                           \cup BisetRights(concrete_topics)
                           \cup BisetRights(wildcard_topics)

====
